---- MODULE Spec2Model ----
(***************************************************************************)
(* A model of the web research pipeline of mcp-apple                       *)
(* (src/utils/webSearch.ts): the HTTP fetcher makeRequest with its retry   *)
(* loop and backoff, and webSearch, which runs a search and then fetches   *)
(* the content of the first results concurrently.                          *)
(*                                                                         *)
(* SpecRequest runs one makeRequest call against a nondeterministic        *)
(* transport, with time in milliseconds.  SpecSearch runs one webSearch    *)
(* call; there the timers fire without their durations being tracked.      *)
(***************************************************************************)
EXTENDS Integers, Sequences, FiniteSets, TLC

(***************************************************************************)
(* Bounds of the model.                                                    *)
(***************************************************************************)
\* the largest retry budget a caller of makeRequest passes in SpecRequest
MaxRetries == 3
\* a transport answers, or fails, within this many clock ticks
MaxLatencyTicks == 2
\* the per-attempt timeout a caller passes in SpecRequest, in clock ticks
TimeoutTicks == 2
\* a timer fires at most this many clock ticks after it is due
MaxLateTicks == 1
\* the most result blocks a search page of SpecSearch carries
MaxResults == 6

\* the longest run of digits in an input of normalizePhoneNumber
MaxDigits == 11

\* the most rows the message store of SpecMessages holds
MaxStoreRows == 3

\* the largest limit passed to readMessages and getUnreadMessages
MaxLimit == 2

\* the most result blocks a search page of SpecExtract carries
MaxSerpBlocks == 11

\* the furthest ahead, in ticks of SpecSchedule, a message is scheduled
MaxAheadTicks == 5

\* patterns with a capture in one attributedBody
MaxCaptures == 2

\* pieces of markup in one content page
MaxPieces == 2

(***************************************************************************)
(* JavaScript values.  An optional number (options.retries,                *)
(* options.timeout) is <<>> when left unspecified and <<n>> when given.    *)
(***************************************************************************)
Undefined == <<>>

Some(n) == <<n>>

\* `x ? ... : ...' on an optional number: undefined and 0 are falsy
Truthy(x) == x # Undefined /\ x[1] # 0

\* `x || d' on an optional number
OrElse(x, d) == IF Truthy(x) THEN x[1] ELSE d

RECURSIVE Pow2(_)
Pow2(n) == IF n <= 0 THEN 1 ELSE 2 * Pow2(n - 1)

(***************************************************************************)
(* Errors: the class the value is an instance of, its name, its message.   *)
(***************************************************************************)
NoError == [cls |-> "null", name |-> "", message |-> ""]

\* line 56: a non-2xx response
StatusError(status) ==
    [cls |-> "Error", name |-> "Error",
     message |-> "Request failed with status code " \o ToString(status)]

\* fetch rejects with a TypeError when the network fails
NetworkError == [cls |-> "TypeError", name |-> "TypeError", message |-> "fetch failed"]

\* the reason of an AbortSignal.timeout signal: a DOMException named TimeoutError
TimeoutError ==
    [cls |-> "DOMException", name |-> "TimeoutError",
     message |-> "The operation was aborted due to timeout"]

\* the reason of an aborted request: a DOMException named AbortError
AbortError ==
    [cls |-> "DOMException", name |-> "AbortError",
     message |-> "This operation was aborted"]

\* reading the body of a response fails when the connection ends early
BodyError == [cls |-> "TypeError", name |-> "TypeError", message |-> "terminated"]

\* line 78: the error thrown when the loop ends with no error recorded
RequestFailed == [cls |-> "Error", name |-> "Error", message |-> "Request failed"]

\* the statuses the transport answers with
Statuses == {200, 404, 503}

ResponseOk(status) == status >= 200 /\ status <= 299

(***************************************************************************)
(* Documents.  The body of a 2xx response is a record of what the regular  *)
(* expressions of the extractors find in it:                               *)
(*   title      the inner text of <title>, "" when there is none           *)
(*   content    the markup outside <title>: its texts and elements, in     *)
(*              document order, an element with its tag and its children   *)
(*   regexFails the regular expressions of extractMainContent throw on it  *)
(*   container  the results container of a search page is present          *)
(*   blocks     the result blocks inside the container, in page order      *)
(*   links      the matches of the looser fallback pattern, in page order  *)
(* A block or link carries the raw title, the encoded uddg value of its    *)
(* href, the display url and the snippet, each <<>> when its pattern does  *)
(* not match.                                                              *)
(***************************************************************************)
Doc(title, content, regexFails, container, blocks, links) ==
    [title |-> title, content |-> content, regexFails |-> regexFails,
     container |-> container, blocks |-> blocks, links |-> links]

\* a run of text between tags
Text(text) == [tag |-> "#text", text |-> text, kids |-> <<>>]

\* an element; the tags "div.content" and "div#content" stand for a div whose
\* class, or whose id, is one of the content names of lines 253-254
Element(tag, kids) == [tag |-> tag, text |-> "", kids |-> kids]

\* the empty string as a document
EmptyDocument == Doc("", <<>>, FALSE, FALSE, <<>>, <<>>)

\* the value of a call's text field while it has returned nothing
NoText == EmptyDocument

\* a page with a main content region
ContentPage ==
    Doc("Lima - Wikipedia",
        <<Element("body", <<Element("nav", <<Text("Menu")>>),
                            Element("main", <<Text("Lima is the capital of Peru.")>>)>>)>>,
        FALSE, FALSE, <<>>, <<>>)

\* a page from which no text is left after the tags are stripped
EmptyPage == Doc("Moved", <<Element("body", <<>>)>>, FALSE, FALSE, <<>>, <<>>)

\* a page on which the regular expressions of extractMainContent throw
PathologicalPage == Doc("Huge", <<>>, TRUE, FALSE, <<>>, <<>>)

\* the pages a content fetch is served
Bodies == {ContentPage, EmptyPage, PathologicalPage}

\* the sites the search results point to, in the order the results cycle through
Sites == <<"a", "b", "c">>

SiteAt(i) == Sites[((i - 1) % Len(Sites)) + 1]

\* the uddg value of the i-th result's href, as the page carries it
EncodedUrl(i) == "https%3A%2F%2F" \o SiteAt(i) \o ".example%2F"

\* an escape sequence decodeURIComponent rejects
MalformedEscape == "%E0%A4%A"

\* a uddg value that decodes to something new URL() rejects
EncodedNonUrl == "not%20a%20url"

\* decodeURIComponent on the values above: [ok, value]; ~ok is a URIError
decodeURIComponent(enc) ==
    IF enc = MalformedEscape THEN [ok |-> FALSE, value |-> ""]
    ELSE IF enc = EncodedNonUrl THEN [ok |-> TRUE, value |-> "not a url"]
    ELSE IF \E i \in 1..Len(Sites) : enc = EncodedUrl(i)
         THEN [ok |-> TRUE,
               value |-> "https://" \o SiteAt(CHOOSE i \in 1..Len(Sites) : enc = EncodedUrl(i))
                             \o ".example/"]
    ELSE [ok |-> TRUE, value |-> enc]

\* new URL(url).hostname on the values above: [ok, value]; ~ok is a TypeError
Hostname(url) ==
    IF \E i \in 1..Len(Sites) : url = "https://" \o SiteAt(i) \o ".example/"
    THEN [ok |-> TRUE,
          value |-> SiteAt(CHOOSE i \in 1..Len(Sites) :
                               url = "https://" \o SiteAt(i) \o ".example/") \o ".example"]
    ELSE [ok |-> FALSE, value |-> ""]

\* the raw title of the i-th result, with a tag and an entity in it
RawTitle(i) == "<b>" \o SiteAt(i) \o "</b> &amp; co"

\* lines 84-104: cleanHTML on the texts above: entities decoded, tags removed
cleanHTML(text) ==
    IF \E i \in 1..Len(Sites) : text = RawTitle(i)
    THEN SiteAt(CHOOSE i \in 1..Len(Sites) : text = RawTitle(i)) \o " & co"
    ELSE text

\* a well-formed result block for the i-th result
GoodBlock(i) ==
    [title |-> Some(RawTitle(i)), href |-> Some(EncodedUrl(i)),
     displayUrl |-> Some(SiteAt(i) \o ".example"), snippet |-> Some("about " \o SiteAt(i))]

\* a search page of n results in the markup the primary strategy expects
SerpPrimary(n) == Doc("search", <<>>, FALSE, TRUE, [i \in 1..n |-> GoodBlock(i)], <<>>)

\* a search page of n results that only the fallback pattern matches
SerpFallback(n) == Doc("search", <<>>, FALSE, FALSE, <<>>, [i \in 1..n |-> GoodBlock(i)])


(***************************************************************************)
(* makeRequest (lines 35-79) as a state machine over one call's record.    *)
(* pc: "fetch" awaits fetch (line 44), "backoff" awaits the setTimeout of  *)
(* line 74, "text" is the promise of response.text() (line 59) that the    *)
(* call returned, "returned" and "thrown" are the settled call.            *)
(***************************************************************************)
DefaultRetries == 2

BackoffBaseMs == 1000

\* one clock tick of SpecRequest, in milliseconds: the base delay
TickMs == BackoffBaseMs

\* a backoff that grows linearly instead of doubling
BackoffDelayLinear(attempt) == BackoffBaseMs * (attempt + 1)

\* line 74
BackoffDelay(attempt) == BackoffBaseMs * Pow2(attempt)

\* line 64
IsAbortError(error) == error.cls = "DOMException" /\ error.name = "AbortError"

\* line 39
EffectiveRetries(options) == OrElse(options.retries, DefaultRetries)

\* line 78
Throw(c) ==
    [c EXCEPT !.pc = "thrown",
              !.thrown = IF c.lastError = NoError THEN RequestFailed ELSE c.lastError]

\* line 42: the loop test, and line 44 when it passes
LoopHead(c) ==
    IF c.attempt <= c.retries
    THEN [c EXCEPT !.pc = "fetch", !.elapsed = 0, !.nfetch = @ + 1]
    ELSE Throw(c)

\* lines 35-44: the call up to its first await
makeRequest(options) ==
    LoopHead([pc |-> "start", attempt |-> 0, retries |-> EffectiveRetries(options),
              timeout |-> options.timeout, lastError |-> NoError,
              elapsed |-> 0, delay |-> 0, nfetch |-> 0,
              text |-> NoText, thrown |-> NoError])

\* a catch block that keeps the first error instead of the last
CatchKeepFirst(c, error) ==
    LET c1 == [c EXCEPT !.lastError = IF @ = NoError THEN error ELSE @]
    IN  IF IsAbortError(error) THEN [c1 EXCEPT !.pc = "thrown", !.thrown = c1.lastError]
        ELSE IF c.attempt = c.retries THEN [c1 EXCEPT !.pc = "thrown", !.thrown = c1.lastError]
        ELSE [c1 EXCEPT !.pc = "backoff", !.delay = BackoffBaseMs * Pow2(c.attempt),
                        !.elapsed = 0]

\* lines 60-75: the catch block
Catch(c, error) ==
    LET c1 == [c EXCEPT !.lastError = error]
    IN  IF IsAbortError(error) THEN Throw(c1)
        ELSE IF c.attempt = c.retries THEN Throw(c1)
        ELSE [c1 EXCEPT !.pc = "backoff", !.delay = BackoffDelay(c.attempt),
                        !.elapsed = 0]

\* lines 55-59: fetch resolved with a response
OnResponse(c, status) ==
    IF ResponseOk(status)
    THEN [c EXCEPT !.pc = "text"]
    ELSE Catch(c, StatusError(status))

\* lines 74, 42: the backoff timer fired; attempt++ and the loop test
OnBackoffElapsed(c) == LoopHead([c EXCEPT !.attempt = @ + 1])

\* line 59: the promise of response.text() resolved; the call returns its value
OnBodyText(c, body) == [c EXCEPT !.pc = "returned", !.text = body]

\* a body read that is awaited inside the try block: its rejection is caught
OnBodyErrorCaught(c, error) == Catch(c, error)

\* line 59: the promise of response.text() rejected, outside the try block
OnBodyError(c, error) == [c EXCEPT !.pc = "thrown", !.thrown = error]

\* line 52: the attempt carries a timeout signal
HasTimeoutSignal(c) == Truthy(c.timeout)

\* line 52: the signal of this attempt has fired
TimeoutDue(c) == HasTimeoutSignal(c) /\ c.elapsed >= c.timeout[1]

\* line 74: the backoff timer is due
BackoffDue(c) == c.elapsed >= c.delay

\* what fetch can reject with other than the timeout
FetchRejections == {NetworkError, AbortError}

\* what the promise of response.text() can reject with
BodyRejections(c) == {BodyError} \cup (IF HasTimeoutSignal(c) THEN {TimeoutError} ELSE {})


(***************************************************************************)
(* The search result extractors (lines 110-149, 200-228).                  *)
(***************************************************************************)
MaxBlocks == 10

Min(a, b) == IF a <= b THEN a ELSE b

\* an optional string that is neither undefined nor ""
TruthyStr(x) == x # Undefined /\ x[1] # ""

\* lines 135-140, 215-220: the SearchResult of a block whose url decoded
SearchResultOf(block, url, displayUrl) ==
    [title |-> cleanHTML(block.title[1]), url |-> url, displayUrl |-> displayUrl,
     snippet |-> IF block.snippet # Undefined THEN cleanHTML(block.snippet[1]) ELSE ""]

\* lines 127-145: what one block adds to the results of the primary strategy;
\* an exception thrown while building the result is caught and the block skipped
PrimaryBlock(block) ==
    IF block.title # Undefined /\ block.href # Undefined
    THEN LET url == decodeURIComponent(block.href[1])
             host == Hostname(url.value)
         IN  IF ~url.ok THEN <<>>
             ELSE IF block.displayUrl # Undefined
                  THEN <<SearchResultOf(block, url.value, cleanHTML(block.displayUrl[1]))>>
             ELSE IF ~host.ok THEN <<>>
             ELSE <<SearchResultOf(block, url.value, host.value)>>
    ELSE <<>>

RECURSIVE PrimaryFrom(_, _, _)
\* lines 124-146: the loop over the first MaxBlocks blocks
PrimaryFrom(blocks, i, results) ==
    IF i > Min(MaxBlocks, Len(blocks)) THEN results
    ELSE PrimaryFrom(blocks, i + 1, results \o PrimaryBlock(blocks[i]))

\* lines 110-149
extractDDGResults(html) ==
    IF ~html.container THEN <<>>
    ELSE IF html.blocks = <<>> THEN <<>>
    ELSE PrimaryFrom(html.blocks, 1, <<>>)

RECURSIVE AlternativeFrom(_, _, _)
\* lines 203-225: the loop over every link, inside one try block: an exception
\* ends the loop and the results found so far are returned
AlternativeFrom(links, i, results) ==
    IF i > Len(links) THEN results
    ELSE LET link == links[i]
         IN  IF link.title # Undefined /\ link.href # Undefined
             THEN LET url == decodeURIComponent(link.href[1])
                      host == Hostname(url.value)
                  IN  IF ~url.ok \/ ~host.ok THEN results
                      ELSE AlternativeFrom(links, i + 1,
                               Append(results, SearchResultOf(link, url.value, host.value)))
             ELSE AlternativeFrom(links, i + 1, results)

\* lines 200-228
extractDDGResultsAlternative(html) ==
    IF html.links = <<>> THEN <<>> ELSE AlternativeFrom(html.links, 1, <<>>)

\* a search step that never consults the fallback strategy
SearchFromHtmlPrimaryOnly(query, html) ==
    LET results == extractDDGResults(html)
    IN  IF Len(results) = 0
        THEN [query |-> query, results |-> <<>>,
              error |-> Some("No results found or couldn't parse results")]
        ELSE [query |-> query, results |-> results, error |-> Undefined]

\* lines 163-185: searchDuckDuckGo once makeRequest returned html
SearchFromHtml(query, html) ==
    LET results == extractDDGResults(html)
        alternativeResults == extractDDGResultsAlternative(html)
    IN  IF Len(results) = 0
        THEN IF Len(alternativeResults) > 0
             THEN [query |-> query, results |-> alternativeResults, error |-> Undefined]
             ELSE [query |-> query, results |-> <<>>,
                   error |-> Some("No results found or couldn't parse results")]
        ELSE [query |-> query, results |-> results, error |-> Undefined]

\* lines 186-194: searchDuckDuckGo once makeRequest threw error
SearchFromError(query, error) ==
    [query |-> query, results |-> <<>>, error |-> Some(error.message)]

(***************************************************************************)
(* extractMainContent and fetchPageContent (lines 233-334).                *)
(***************************************************************************)
Null == <<>>

\* lines 239-246: the elements replaced by a space before the search
NoiseTags == {"script", "style", "header", "footer", "nav", "aside", "form", "comment"}

RECURSIVE RemoveNoise(_)
\* lines 238-246: the markup without its noise elements
RemoveNoise(nodes) ==
    IF nodes = <<>> THEN <<>>
    ELSE LET node == Head(nodes)
         IN  IF node.tag \in NoiseTags THEN RemoveNoise(Tail(nodes))
             ELSE <<[node EXCEPT !.kids = RemoveNoise(@)]>> \o RemoveNoise(Tail(nodes))

\* a list of selectors with article tried before main
contentSelectorsArticleFirst == <<"article", "main", "div.content", "div#content", "body">>

\* lines 249-255: the selectors, in priority order
contentSelectors == <<"main", "article", "div.content", "div#content", "body">>

RECURSIVE Matches(_, _)
\* line 261: the matches of one selector, in document order; a match runs
\* from the start tag to the first end tag after it, and the search goes on
\* behind it
Matches(nodes, tag) ==
    IF nodes = <<>> THEN <<>>
    ELSE LET node == Head(nodes)
         IN  (IF node.tag = tag THEN <<node>> ELSE Matches(node.kids, tag))
                 \o Matches(Tail(nodes), tag)

RECURSIVE SelectFrom(_, _)
\* lines 260-267: the matches of the first selector, from the k-th on, that
\* has any; <<>> when none has
SelectFrom(cleaned, k) ==
    IF k > Len(contentSelectors) THEN <<>>
    ELSE IF Matches(cleaned, contentSelectors[k]) # <<>>
         THEN Matches(cleaned, contentSelectors[k])
         ELSE SelectFrom(cleaned, k + 1)

RECURSIVE StripTags(_)
\* line 276: the texts left when every tag is replaced by a space
StripTags(nodes) ==
    IF nodes = <<>> THEN <<>>
    ELSE LET node == Head(nodes)
         IN  (IF node.tag = "#text" THEN <<node.text>> ELSE StripTags(node.kids))
                 \o StripTags(Tail(nodes))

RECURSIVE JoinWords(_)
\* lines 264, 279: texts separated by one space, none at either end
JoinWords(words) ==
    IF words = <<>> THEN ""
    ELSE IF Len(words) = 1 THEN words[1]
    ELSE words[1] \o " " \o JoinWords(Tail(words))

\* lines 233-288: the empty string gives ""; an exception inside the try
\* block gives the failure string; the whole document of line 271 has the
\* title in front
extractMainContent(html) ==
    IF html = EmptyDocument THEN ""
    ELSE IF html.regexFails THEN "Failed to extract content"
    ELSE LET cleanedContent ==
                 RemoveNoise((IF html.title # "" THEN <<Element("title", <<Text(html.title)>>)>>
                              ELSE <<>>) \o html.content)
             matches == SelectFrom(cleanedContent, 1)
             mainContent == IF matches # <<>> THEN matches ELSE cleanedContent
         IN  cleanHTML(JoinWords(StripTags(mainContent)))

\* line 307 on the pages a content fetch is served, each extracted once
MainContentOf == [html \in Bodies |-> extractMainContent(html)]

\* lines 306-324: fetchPageContent once makeRequest returned html
PageFromHtml(url, html) ==
    LET content == IF html \in Bodies THEN MainContentOf[html]
                   ELSE extractMainContent(html)
        title == cleanHTML(html.title)
    IN  [url |-> url,
         content |-> Some(IF content # "" THEN content
                          ELSE "[No content extracted. Page title: " \o title \o "]"),
         error |-> Undefined]

\* a catch block that drops the message of the error
PageFromErrorSilent(url, error) ==
    [url |-> url, content |-> Null, error |-> Undefined]

\* lines 325-333: fetchPageContent once makeRequest threw error
PageFromError(url, error) ==
    [url |-> url, content |-> Null, error |-> Some(error.message)]

(***************************************************************************)
(* webSearch (lines 340-394).  A promise of fetchPageContent is pending    *)
(* (with the makeRequest call it awaits), fulfilled or rejected.           *)
(***************************************************************************)
SearchTimeoutMs == 10000

SearchRetries == 2

ContentTimeoutMs == 15000

ContentRetries == 1

MaxContentResults == 5

\* lines 159-162
SearchOptions == [retries |-> Some(SearchRetries), timeout |-> Some(SearchTimeoutMs)]

\* lines 298-304
ContentOptions == [retries |-> Some(ContentRetries), timeout |-> Some(ContentTimeoutMs)]

\* a makeRequest record for a call that is over
NoCall ==
    [pc |-> "over", attempt |-> 0, retries |-> 0, timeout |-> Undefined,
     lastError |-> NoError, elapsed |-> 0, delay |-> 0, nfetch |-> 0,
     text |-> NoText, thrown |-> NoError]

NoValue == [url |-> "", content |-> Null, error |-> Undefined]

\* lines 293-304: fetchPageContent(url) up to its first await
fetchPageContent(url) ==
    [status |-> "pending", url |-> url, call |-> makeRequest(ContentOptions),
     value |-> NoValue, reason |-> "", outcome |-> "pending"]

\* what happened to the page of a settled makeRequest call c: the request
\* failed, the extraction of the returned document failed, or neither
PageOutcome(c) ==
    IF c.pc = "thrown" THEN "fetch failed"
    ELSE IF c.text # EmptyDocument /\ c.text.regexFails THEN "extraction failed"
    ELSE "ok"

\* a fetchPageContent without its outer catch block: an error of makeRequest
\* rejects the promise
PagePromiseRejecting(promise, c) ==
    IF c.pc = "returned"
    THEN [promise EXCEPT !.status = "fulfilled", !.call = NoCall,
                         !.value = PageFromHtml(promise.url, c.text),
                         !.outcome = PageOutcome(c)]
    ELSE IF c.pc = "thrown"
    THEN [promise EXCEPT !.status = "rejected", !.call = NoCall,
                         !.reason = c.thrown.message,
                         !.outcome = PageOutcome(c)]
    ELSE [promise EXCEPT !.call = c]

\* the promise of fetchPageContent once its makeRequest call moved to c:
\* pending while the call awaits, fulfilled with the value of lines 321-333
\* once it settled (outcome records what happened, for the properties)
PagePromise(promise, c) ==
    IF c.pc = "returned"
    THEN [promise EXCEPT !.status = "fulfilled", !.call = NoCall,
                         !.value = PageFromHtml(promise.url, c.text),
                         !.outcome = PageOutcome(c)]
    ELSE IF c.pc = "thrown"
    THEN [promise EXCEPT !.status = "fulfilled", !.call = NoCall,
                         !.value = PageFromError(promise.url, c.thrown),
                         !.outcome = PageOutcome(c)]
    ELSE [promise EXCEPT !.call = c]

\* line 354
ResultsToProcess(results) == SubSeq(results, 1, Min(MaxContentResults, Len(results)))

\* lines 362-379: the ContentResult of one search result and its settled promise
FullResult(result, promise) ==
    IF promise.status = "fulfilled"
    THEN [title |-> result.title, url |-> result.url, displayUrl |-> result.displayUrl,
          snippet |-> result.snippet,
          content |-> promise.value.content, error |-> promise.value.error]
    ELSE [title |-> result.title, url |-> result.url, displayUrl |-> result.displayUrl,
          snippet |-> result.snippet,
          content |-> Null, error |-> Some("Failed to fetch content: " \o promise.reason)]

\* a response that pairs the results with the promises from the other end
FullResponseReversed(query, results, promises) ==
    [query |-> query, error |-> Undefined,
     results |-> [i \in 1..Len(results) |->
                     FullResult(results[Len(results) + 1 - i], promises[Len(results) + 1 - i])]]

\* a response that reports a failed content fetch as a top-level error
FullResponseWithError(query, results, promises) ==
    [query |-> query,
     error |-> IF \E i \in 1..Len(promises) : promises[i].value.error # Undefined
               THEN Some("Some results could not be fetched") ELSE Undefined,
     results |-> [i \in 1..Len(results) |-> FullResult(results[i], promises[i])]]

\* lines 362-384
FullResponse(query, results, promises) ==
    [query |-> query, error |-> Undefined,
     results |-> [i \in 1..Len(results) |-> FullResult(results[i], promises[i])]]

\* lines 345-351
SearchFailed(searchResults) ==
    TruthyStr(searchResults.error) \/ Len(searchResults.results) = 0

\* an early return that forgets the error
ErrorResponseNoError(query, searchResults) ==
    [query |-> query, error |-> Undefined, results |-> <<>>]

\* lines 346-350
ErrorResponse(query, searchResults) ==
    [query |-> query,
     error |-> Some(IF TruthyStr(searchResults.error) THEN searchResults.error[1]
                    ELSE "No search results found"),
     results |-> <<>>]

\* a combinator that resolves as soon as one promise settled
AnySettled(promises) == \E i \in 1..Len(promises) : promises[i].status # "pending"

\* line 357: Promise.allSettled resolves once no promise is pending
AllSettled(promises) == \A i \in 1..Len(promises) : promises[i].status # "pending"

(***************************************************************************)
(* src/utils/message.ts.  A string is a sequence of one-character strings, *)
(* so that the regular expressions of normalizePhoneNumber are computed    *)
(* character by character.                                                 *)
(***************************************************************************)
Digits == {"0", "1", "2", "3", "4", "5", "6", "7", "8", "9"}

IsDigits(s) == \A i \in 1..Len(s) : s[i] \in Digits

StartsWith(s, p) == Len(s) >= Len(p) /\ SubSeq(s, 1, Len(p)) = p

\* line 31: phone.replace(/[^0-9+]/g, '') keeps the digits and every '+'
Cleaned(phone) == SelectSeq(phone, LAMBDA ch : ch \in Digits \cup {"+"})

\* line 34: /^\+1\d{10}$/
MatchPlusOneTen(s) == Len(s) = 12 /\ StartsWith(s, <<"+", "1">>) /\ IsDigits(SubSeq(s, 3, 12))

\* line 38: /^1\d{10}$/
MatchOneTen(s) == Len(s) = 11 /\ StartsWith(s, <<"1">>) /\ IsDigits(s)

\* line 42: /^\d{10}$/
MatchTen(s) == Len(s) = 10 /\ IsDigits(s)

\* a fallback that adds the cleaned string and its +1 form to the Set
FallbackFormatsBoth(cleaned) ==
    IF StartsWith(cleaned, <<"+", "1">>) THEN <<cleaned>>
    ELSE <<cleaned, <<"+", "1">> \o cleaned>>

\* lines 47-59: the Set receives exactly one candidate
FallbackFormats(cleaned) ==
    IF StartsWith(cleaned, <<"+", "1">>) THEN <<cleaned>>
    ELSE IF StartsWith(cleaned, <<"1">>) THEN << <<"+">> \o cleaned >>
    ELSE << <<"+", "1">> \o cleaned >>

\* a normalizer that prefixes +1 to an 11-digit number that already has its 1
normalizePhoneNumberDoubleOne(phone) ==
    LET cleaned == Cleaned(phone)
    IN  IF MatchPlusOneTen(cleaned) THEN <<cleaned>>
        ELSE IF MatchOneTen(cleaned) THEN << <<"+", "1">> \o cleaned >>
        ELSE IF MatchTen(cleaned) THEN << <<"+", "1">> \o cleaned >>
        ELSE FallbackFormats(cleaned)

\* lines 29-60
normalizePhoneNumber(phone) ==
    LET cleaned == Cleaned(phone)
    IN  IF MatchPlusOneTen(cleaned) THEN <<cleaned>>
        ELSE IF MatchOneTen(cleaned) THEN << <<"+">> \o cleaned >>
        ELSE IF MatchTen(cleaned) THEN << <<"+", "1">> \o cleaned >>
        ELSE FallbackFormats(cleaned)

\* line 9
MAX_RETRIES == 3

\* line 10
RETRY_DELAY == 1000

\* lines 16-27.  A retryOperation call: it awaits the operation ("run") or
\* sleep(delay) ("sleep"), or it has "returned" value or "thrown" error;
\* runs counts the operation's executions, waits lists the delays slept.
retryOperation(retries, delay) ==
    [pc |-> "run", retries |-> retries, delay |-> delay, runs |-> 0, waits |-> <<>>,
     value |-> Undefined, error |-> Undefined]

\* no retryOperation call
NoRetry == [pc |-> "idle", retries |-> 0, delay |-> 0, runs |-> 0, waits |-> <<>>,
            value |-> Undefined, error |-> Undefined]

\* line 18: the operation resolved, whatever its value
OnOperationResolved(r, value) ==
    [r EXCEPT !.pc = "returned", !.runs = @ + 1, !.value = Some(value)]

\* a catch that retries only while more than one retry is left
OnOperationRejectedOneLess(r, error) ==
    IF r.retries > 1
    THEN [r EXCEPT !.pc = "sleep", !.runs = @ + 1, !.waits = Append(@, r.delay)]
    ELSE [r EXCEPT !.pc = "thrown", !.runs = @ + 1, !.error = Some(error)]

\* lines 19-26: the operation rejected
OnOperationRejected(r, error) ==
    IF r.retries > 0
    THEN [r EXCEPT !.pc = "sleep", !.runs = @ + 1, !.waits = Append(@, r.delay)]
    ELSE [r EXCEPT !.pc = "thrown", !.runs = @ + 1, !.error = Some(error)]

\* line 23: the recursive call, one retry less and the same delay
OnSleepElapsed(r) == [r EXCEPT !.pc = "run", !.retries = @ - 1]

\* lines 82-106: both failures are caught and answered with false
checkMessagesDBAccess(fileReadable, probeSucceeds) == fileReadable /\ probeSucceeds

\* The text of a message is a string; the one text of the model that carries
\* a URL is listed with the first match of /(https?:\/\/[^\s]+)/ in it.
UrlMatch(text) ==
    IF text = "see https://a.example/x now" THEN Some("https://a.example/x") ELSE Undefined

\* An attributedBody is given by what the regular expressions of lines
\* 115-152 find in it: the capture of each of the 7 text patterns and of each
\* of the 4 URL patterns ("" where the pattern has no match), and what the
\* replacements of lines 156-164 leave of the whole buffer.
Blob(captures, urls, readable) == [captures |-> captures, urls |-> urls, readable |-> readable]

RECURSIVE PatternLoop(_, _, _)
\* lines 126-135: a capture replaces text; the loop stops at one longer than 5
PatternLoop(captures, k, text) ==
    IF k > Len(captures) THEN text
    ELSE IF captures[k] # ""
         THEN IF Len(captures[k]) > 5 THEN captures[k]
              ELSE PatternLoop(captures, k + 1, captures[k])
         ELSE PatternLoop(captures, k + 1, text)

\* lines 145-152: the first URL pattern with a capture
FirstUrl(urls) ==
    LET found == SelectSeq(urls, LAMBDA u : u # "")
    IN  IF found = <<>> THEN Undefined ELSE Some(found[1])

\* lines 174-180 on the texts of the model: leading '+' and spaces and a
\* trailing "iI K" are removed
Tidy(text) == IF text = "+ Dinner at eight iI K" THEN "Dinner at eight" ELSE text

NotReadable == [text |-> "[Message content not readable]", url |-> Undefined]

\* lines 108-187
decodeAttributedBody(blob) ==
    LET matched == PatternLoop(blob.captures, 1, "")
        url == FirstUrl(blob.urls)
        text == IF matched = "" /\ url = Undefined THEN blob.readable ELSE matched
        tidied == IF text # "" THEN Tidy(text) ELSE text
    IN  IF matched = "" /\ url = Undefined /\ ~(Len(blob.readable) > 5) THEN NotReadable
        ELSE [text |-> IF tidied # "" THEN tidied
                       ELSE IF url # Undefined THEN url[1] ELSE "",
              url |-> url]

\* lines 189-211: the filenames of the message, without the falsy ones; an
\* empty array when the lookup failed
getAttachmentPaths(files, lookupSucceeds) ==
    IF lookupSucceeds THEN SelectSeq(files, LAMBDA f : f # "") ELSE <<>>

\* lines 236, 359: m.date counts nanoseconds
NanosPerSecond == 1000000000

\* lines 236, 359: strftime('%s', '2001-01-01')
AppleEpoch == 978307200

\* lines 231-235, 354-358: the CASE that yields content (the hex dump of an
\* attributedBody stands for the body it can be decoded back to)
Content(m) ==
    IF m.text # Null /\ m.text[1] # "" THEN m.text
    ELSE IF m.attributedBody # Null THEN m.attributedBody
    ELSE Null

\* lines 242-246, 365-369: the CASE that yields content_type
ContentType(m) ==
    IF m.text # Null /\ m.text[1] # "" THEN 0
    ELSE IF m.attributedBody # Null THEN 1
    ELSE 2

\* lines 229-246, 352-369: the columns selected for one row; date stands for the
\* 'YYYY-MM-DD HH:MM:SS' string datetime() prints, by the second it names
Select(m) ==
    [message_id |-> m.id,
     content |-> Content(m),
     date |-> (m.date \div NanosPerSecond) + AppleEpoch,
     sender |-> m.handle,
     is_from_me |-> m.is_from_me,
     is_audio_message |-> m.is_audio_message,
     cache_has_attachments |-> m.cache_has_attachments,
     subject |-> m.subject,
     content_type |-> ContentType(m)]

HasPayload(m) == m.text # Null \/ m.attributedBody # Null \/ m.cache_has_attachments = 1

\* lines 249-253: WHERE of readMessages
ReadWhere(m, phoneFormats) ==
    /\ \E k \in 1..Len(phoneFormats) : m.handle = phoneFormats[k]
    /\ HasPayload(m)
    /\ m.is_from_me # Null
    /\ m.item_type = 0
    /\ m.is_audio_message = 0

\* a WHERE of getUnreadMessages without its is_read clause
UnreadWhereAnyRead(m) ==
    /\ m.is_from_me = Some(0)
    /\ HasPayload(m)
    /\ m.is_audio_message = 0
    /\ m.item_type = 0

\* lines 372-376: WHERE of getUnreadMessages
UnreadWhere(m) ==
    /\ m.is_from_me = Some(0)
    /\ m.is_read = 0
    /\ HasPayload(m)
    /\ m.is_audio_message = 0
    /\ m.item_type = 0

RECURSIVE AscendingByDate(_)
\* the rows of a set, oldest first
AscendingByDate(rows) ==
    IF rows = {} THEN <<>>
    ELSE LET first == CHOOSE m \in rows : \A o \in rows : m.date <= o.date
         IN  <<first>> \o AscendingByDate(rows \ {first})

RECURSIVE OrderByDateDesc(_)
\* lines 254, 377: ORDER BY m.date DESC
OrderByDateDesc(rows) ==
    IF rows = {} THEN <<>>
    ELSE LET first == CHOOSE m \in rows : \A o \in rows : m.date >= o.date
         IN  <<first>> \o OrderByDateDesc(rows \ {first})

\* lines 255, 378: LIMIT
Limit(rows, limit) == SubSeq(rows, 1, Min(limit, Len(rows)))

\* lines 227-256 and 351-379: what sqlite3 prints for the query
QueryRows(matching, limit) ==
    LET ordered == Limit(OrderByDateDesc(matching), limit)
    IN  [i \in 1..Len(ordered) |-> Select(ordered[i])]

\* lines 279, 402: the filter before map
Survives(msg) == msg.content # Null \/ msg.cache_has_attachments = 1

\* lines 311, 434 on the seconds of the model: the first ten seconds of 2001
toISOString(secs) == "2001-01-01T00:00:0" \o ToString(secs - AppleEpoch) \o ".000Z"

\* lines 281-295, 404-418: content and url before the attachment lookup
BodyOf(msg) ==
    IF msg.content_type = 1 THEN decodeAttributedBody(msg.content[1])
    ELSE IF msg.content = Null THEN [text |-> "", url |-> Undefined]
    ELSE [text |-> msg.content[1], url |-> UrlMatch(msg.content[1])]

\* lines 311, 434: new Date(msg.date).toISOString() throws a RangeError when
\* new Date() is an Invalid Date.  The string datetime() prints is not the
\* date-time format of ECMAScript, so whether it parses is up to the runtime's
\* Date: a runtime either accepts the format, for every row, or rejects it,
\* for every row
FormatThrows(parsesDatetime) == ~parsesDatetime

\* lines 303-329, 426-452: the Message of a row whose date parsed; an absent
\* attachments field is the empty sequence, an absent url is Undefined
FormatMessage(msg, attachments) ==
    LET body == BodyOf(msg)
        subjected == IF msg.subject # Null /\ msg.subject[1] # ""
                     THEN "Subject: " \o msg.subject[1] \o "\n" \o body.text
                     ELSE body.text
        base == IF subjected # "" THEN subjected ELSE "[No text content]"
        marked == IF Len(attachments) > 0
                  THEN base \o "\n[Attachments: " \o ToString(Len(attachments)) \o "]"
                  ELSE base
    IN  [content |-> IF body.url # Undefined
                     THEN marked \o "\n[URL: " \o body.url[1] \o "]" ELSE marked,
         date |-> toISOString(msg.date),
         sender |-> msg.sender,
         is_from_me |-> msg.is_from_me \notin {Null, Some(0)},
         attachments |-> attachments,
         url |-> body.url]

NoMessage == [content |-> "", date |-> "", sender |-> <<>>, is_from_me |-> FALSE,
              attachments |-> <<>>, url |-> Undefined]

\* the promise of one map callback (lines 280, 403) once its attachments are known
Settled(msg, attachments, parsesDatetime) ==
    IF FormatThrows(parsesDatetime)
    THEN [msg |-> msg, status |-> "rejected", value |-> NoMessage]
    ELSE [msg |-> msg, status |-> "fulfilled", value |-> FormatMessage(msg, attachments)]

\* lines 298-301, 421-424: a row with attachments awaits getAttachmentPaths, any other
\* row runs to its end inside map
Started(msg, parsesDatetime) ==
    IF msg.cache_has_attachments # 0
    THEN [msg |-> msg, status |-> "pending", value |-> NoMessage]
    ELSE Settled(msg, <<>>, parsesDatetime)

\* lines 277-280, 400-403: filter, then map
StartAll(rows, parsesDatetime) ==
    LET kept == SelectSeq(rows, Survives)
    IN  [i \in 1..Len(kept) |-> Started(kept[i], parsesDatetime)]

AnyRejected(tasks) == \E i \in 1..Len(tasks) : tasks[i].status = "rejected"

AllFulfilled(tasks) == \A i \in 1..Len(tasks) : tasks[i].status = "fulfilled"

\* lines 277, 333-340: Promise.all rejects with the first rejection, and the
\* catch block answers it with an empty array
Awaited(tasks) ==
    IF AnyRejected(tasks) THEN <<>> ELSE [i \in 1..Len(tasks) |-> tasks[i].value]

(***************************************************************************)
(* State.                                                                  *)
(***************************************************************************)
VARIABLES
    options,        \* SpecRequest: the options the caller passed to makeRequest
    req,            \* SpecRequest: the makeRequest call
    outcomes,       \* SpecRequest: the error each attempt so far ended with (NoError: 2xx)
    sleeps,         \* SpecRequest: each backoff so far: the delay asked, the time slept
    query,          \* SpecSearch: the argument of webSearch
    wpc,            \* SpecSearch: webSearch awaits "search" or "fetching", or is "done"
    searchCall,     \* SpecSearch: the makeRequest call of searchDuckDuckGo
    searchResults,  \* SpecSearch: what searchDuckDuckGo returned (line 343)
    promises,       \* SpecSearch: the promises of fetchPageContent (line 358)
    response,       \* SpecSearch: what webSearch returned
    overtaken,      \* SpecSearch: a fetch settled while an earlier one was pending
    phone,          \* SpecPhone: the argument of normalizePhoneNumber
    phoneFormats,   \* SpecPhone: what normalizePhoneNumber returned
    ppc,            \* SpecPhone: "call" before the call, "done" after it
    store,          \* SpecMessages: the rows of the message store
    call,           \* SpecMessages: the function called and its arguments
    dateParses,     \* SpecMessages: the runtime's Date accepts 'YYYY-MM-DD HH:MM:SS'
    mpc,            \* SpecMessages: the call awaits "check", "probe", "query" or "rows",
                    \* or is "done"
    access,         \* SpecMessages: retryOperation(checkMessagesDBAccess), lines 216, 346
    exec,           \* SpecMessages: retryOperation of the query, lines 259, 382
    raised,         \* SpecMessages: the error of the query's latest failed execution
    tasks,          \* SpecMessages: the promises of the map callbacks, lines 280, 403
    messages,       \* SpecMessages: the array the call returned
    outOfOrder,     \* SpecMessages: a lookup ended while an earlier row's was pending
    arg,            \* SpecExtract, SpecDecode: the argument of the function applied
    result,         \* SpecExtract, SpecDecode: what the function returned
    fpc,            \* SpecExtract, SpecDecode: "call" before the call, "done" after it
    now,            \* SpecSchedule: the clock, in ticks
    sched           \* SpecSchedule: the scheduleMessage call and its timer

reqVars == <<options, req, outcomes, sleeps>>

searchVars == <<query, wpc, searchCall, searchResults, promises, response, overtaken>>

phoneVars == <<phone, phoneFormats, ppc>>

vars == <<options, req, outcomes, sleeps,
          query, wpc, searchCall, searchResults, promises, response, overtaken,
          phone, phoneFormats, ppc,
          store, call, dateParses, mpc, access, exec, raised, tasks, messages, outOfOrder,
          arg, result, fpc, now, sched>>

fnVars == <<arg, result, fpc>>

schedVars == <<now, sched>>

FnIdle == arg = <<>> /\ result = <<>> /\ fpc = "idle"

ScheduleIdle == now = 0 /\ sched = <<>>

PhoneIdle == phone = <<>> /\ phoneFormats = <<>> /\ ppc = "idle"

msgVars == <<store, call, dateParses, mpc, access, exec, raised, tasks, messages,
            outOfOrder>>

MessagesIdle ==
    /\ store = {}
    /\ call = [op |-> "none", phoneNumber |-> <<>>, limit |-> 0]
    /\ dateParses = TRUE
    /\ mpc = "idle"
    /\ access = NoRetry
    /\ exec = NoRetry
    /\ raised = Undefined
    /\ tasks = <<>>
    /\ messages = <<>>
    /\ outOfOrder = FALSE

NoSearchResponse == [query |-> "", results |-> <<>>, error |-> Undefined]

NoResponse == [query |-> "", results |-> <<>>, error |-> Undefined]

(***************************************************************************)
(* SpecRequest: one makeRequest call.                                      *)
(***************************************************************************)
RetryOptions == {Undefined} \cup {Some(r) : r \in 0..MaxRetries}

TimeoutOptions == {Undefined, Some(0), Some(TimeoutTicks * TickMs)}

InitRequest ==
    /\ options \in [retries : RetryOptions, timeout : TimeoutOptions]
    /\ req = makeRequest(options)
    /\ outcomes = <<>>
    /\ sleeps = <<>>
    /\ query = ""
    /\ wpc = "idle"
    /\ searchCall = NoCall
    /\ searchResults = NoSearchResponse
    /\ promises = <<>>
    /\ response = NoResponse
    /\ overtaken = FALSE
    /\ PhoneIdle
    /\ MessagesIdle
    /\ FnIdle
    /\ ScheduleIdle

\* the transport answers the attempt in flight with a status
ReqResponse(status) ==
    /\ req.pc = "fetch"
    /\ ~TimeoutDue(req)
    /\ req' = OnResponse(req, status)
    /\ outcomes' = Append(outcomes, IF ResponseOk(status) THEN NoError ELSE StatusError(status))
    /\ UNCHANGED <<options, sleeps, searchVars, phoneVars, msgVars, fnVars, schedVars>>

\* fetch rejects: the network failed, or the request was aborted
ReqReject(error) ==
    /\ req.pc = "fetch"
    /\ ~TimeoutDue(req)
    /\ req' = Catch(req, error)
    /\ outcomes' = Append(outcomes, error)
    /\ UNCHANGED <<options, sleeps, searchVars, phoneVars, msgVars, fnVars, schedVars>>

\* the attempt's timeout signal fires and fetch rejects with its reason
ReqTimeout ==
    /\ req.pc = "fetch"
    /\ TimeoutDue(req)
    /\ req' = Catch(req, TimeoutError)
    /\ outcomes' = Append(outcomes, TimeoutError)
    /\ UNCHANGED <<options, sleeps, searchVars, phoneVars, msgVars, fnVars, schedVars>>

\* the backoff timer fires and the next attempt starts
ReqBackoffElapsed ==
    /\ req.pc = "backoff"
    /\ BackoffDue(req)
    /\ req' = OnBackoffElapsed(req)
    /\ sleeps' = Append(sleeps, [delay |-> req.delay, slept |-> req.elapsed])
    /\ UNCHANGED <<options, outcomes, searchVars, phoneVars, msgVars, fnVars, schedVars>>

\* the body of the 2xx response is read
ReqBodyText(body) ==
    /\ req.pc = "text"
    /\ req' = OnBodyText(req, body)
    /\ UNCHANGED <<options, outcomes, sleeps, searchVars, phoneVars, msgVars, fnVars, schedVars>>

\* reading the body of the 2xx response fails
ReqBodyError(error) ==
    /\ req.pc = "text"
    /\ error \in BodyRejections(req)
    /\ req' = OnBodyError(req, error)
    /\ UNCHANGED <<options, outcomes, sleeps, searchVars, phoneVars, msgVars, fnVars, schedVars>>

\* time passes while the call awaits
Tick ==
    /\ \/ req.pc = "fetch" /\ req.elapsed < MaxLatencyTicks * TickMs
       \/ req.pc = "backoff" /\ req.elapsed < req.delay + MaxLateTicks * TickMs
    /\ req' = [req EXCEPT !.elapsed = @ + TickMs]
    /\ UNCHANGED <<options, outcomes, sleeps, searchVars, phoneVars, msgVars, fnVars, schedVars>>

NextRequest ==
    \/ \E status \in Statuses : ReqResponse(status)
    \/ \E error \in FetchRejections : ReqReject(error)
    \/ ReqTimeout
    \/ ReqBackoffElapsed
    \/ \E body \in Bodies : ReqBodyText(body)
    \/ \E error \in {BodyError, TimeoutError} : ReqBodyError(error)
    \/ Tick

SpecRequest == InitRequest /\ [][NextRequest]_vars

(***************************************************************************)
(* SpecSearch: one webSearch call.  Each action is one event of the        *)
(* transport or of a timer, followed by everything the code runs before    *)
(* it awaits again.  The durations of the timers are not tracked: a        *)
(* timeout signal may fire whenever its attempt is in flight.              *)
(***************************************************************************)
Queries == {"capital of Peru", "lima"}

\* the search pages the transport serves
SearchPages ==
    {SerpPrimary(n) : n \in 0..MaxResults} \cup {SerpFallback(n) : n \in 1..MaxResults}
        \cup {EmptyDocument}

\* The sites of the model, each with its own ways to fail.  Site a answers
\* 200 or 503 and serves a page with content or one without; site b is slow:
\* its attempts may time out, before the response or while the body is read;
\* site c drops connections, before the response or while the body is read,
\* and serves a page on which extraction throws.
UrlOf(site) == "https://" \o site \o ".example/"

StatusesOf(url) == IF url = UrlOf("a") THEN {200, 503} ELSE {200}

RejectionsOf(url) == IF url = UrlOf("c") THEN {NetworkError} ELSE {}

MayTimeOut(url) == url = UrlOf("b")

BodiesOf(url) ==
    IF url = UrlOf("a") THEN {ContentPage, EmptyPage}
    ELSE IF url = UrlOf("c") THEN {ContentPage, PathologicalPage}
    ELSE {ContentPage}

BodyErrorsOf(url) ==
    IF url = UrlOf("b") THEN {TimeoutError}
    ELSE IF url = UrlOf("c") THEN {BodyError}
    ELSE {}

\* lines 340-343: webSearch(query) up to its first await
InitSearch ==
    /\ query \in Queries
    /\ wpc = "search"
    /\ searchCall = makeRequest(SearchOptions)
    /\ searchResults = NoSearchResponse
    /\ promises = <<>>
    /\ response = NoResponse
    /\ overtaken = FALSE
    /\ PhoneIdle
    /\ MessagesIdle
    /\ FnIdle
    /\ ScheduleIdle
    /\ options = [retries |-> Undefined, timeout |-> Undefined]
    /\ req = NoCall
    /\ outcomes = <<>>
    /\ sleeps = <<>>

\* lines 354-359: one fetchPageContent call per result to process, all started
\* before Promise.allSettled is awaited
Dispatch(results) ==
    [i \in 1..Len(ResultsToProcess(results)) |->
        fetchPageContent(ResultsToProcess(results)[i].url)]

\* the search call moved to c; once it settled, searchDuckDuckGo returns and
\* webSearch runs lines 345-359
AfterSearchCall(c) ==
    IF c.pc \in {"returned", "thrown"}
    THEN LET sr == IF c.pc = "returned" THEN SearchFromHtml(query, c.text)
                   ELSE SearchFromError(query, c.thrown)
         IN  /\ searchCall' = NoCall
             /\ searchResults' = sr
             /\ IF SearchFailed(sr)
                THEN /\ wpc' = "done"
                     /\ response' = ErrorResponse(query, sr)
                     /\ promises' = <<>>
                ELSE /\ wpc' = "fetching"
                     /\ response' = NoResponse
                     /\ promises' = Dispatch(sr.results)
             /\ UNCHANGED <<query, overtaken, reqVars, phoneVars, msgVars, fnVars, schedVars>>
    ELSE /\ searchCall' = c
         /\ UNCHANGED <<query, wpc, searchResults, promises, response, overtaken, reqVars, phoneVars, msgVars, fnVars, schedVars>>

\* the call of promise i moved to c; once every promise settled, webSearch
\* runs lines 362-384.  Nothing in lines 341-384 throws on the values above,
\* so the catch block of lines 385-393 has no transition.
AfterPageCall(i, c) ==
    LET ps == [promises EXCEPT ![i] = PagePromise(@, c)]
    IN  /\ promises' = ps
        /\ overtaken' = (overtaken \/ (/\ ps[i].status # "pending"
                                       /\ \E j \in 1..(i - 1) : ps[j].status = "pending"))
        /\ IF AllSettled(ps)
           THEN /\ wpc' = "done"
                /\ response' = FullResponse(query, ResultsToProcess(searchResults.results), ps)
           ELSE UNCHANGED <<wpc, response>>
        /\ UNCHANGED <<query, searchCall, searchResults, reqVars, phoneVars, msgVars, fnVars, schedVars>>

SearchInFlight == wpc = "search" /\ searchCall.pc = "fetch"

SearchResponds(status) ==
    /\ SearchInFlight
    /\ AfterSearchCall(OnResponse(searchCall, status))

SearchRejects(error) ==
    /\ SearchInFlight
    /\ AfterSearchCall(Catch(searchCall, error))

SearchTimesOut ==
    /\ SearchInFlight
    /\ HasTimeoutSignal(searchCall)
    /\ AfterSearchCall(Catch(searchCall, TimeoutError))

SearchBackoffElapsed ==
    /\ wpc = "search"
    /\ searchCall.pc = "backoff"
    /\ AfterSearchCall(OnBackoffElapsed(searchCall))

SearchBodyText(body) ==
    /\ wpc = "search"
    /\ searchCall.pc = "text"
    /\ AfterSearchCall(OnBodyText(searchCall, body))

SearchBodyError(error) ==
    /\ wpc = "search"
    /\ searchCall.pc = "text"
    /\ error \in BodyRejections(searchCall)
    /\ AfterSearchCall(OnBodyError(searchCall, error))

PageInFlight(i) == wpc = "fetching" /\ promises[i].status = "pending"

PageResponds(i, status) ==
    /\ PageInFlight(i)
    /\ promises[i].call.pc = "fetch"
    /\ status \in StatusesOf(promises[i].url)
    /\ AfterPageCall(i, OnResponse(promises[i].call, status))

PageRejects(i, error) ==
    /\ PageInFlight(i)
    /\ promises[i].call.pc = "fetch"
    /\ error \in RejectionsOf(promises[i].url)
    /\ AfterPageCall(i, Catch(promises[i].call, error))

PageTimesOut(i) ==
    /\ PageInFlight(i)
    /\ promises[i].call.pc = "fetch"
    /\ HasTimeoutSignal(promises[i].call)
    /\ MayTimeOut(promises[i].url)
    /\ AfterPageCall(i, Catch(promises[i].call, TimeoutError))

PageBackoffElapsed(i) ==
    /\ PageInFlight(i)
    /\ promises[i].call.pc = "backoff"
    /\ AfterPageCall(i, OnBackoffElapsed(promises[i].call))

PageBodyText(i, body) ==
    /\ PageInFlight(i)
    /\ promises[i].call.pc = "text"
    /\ body \in BodiesOf(promises[i].url)
    /\ AfterPageCall(i, OnBodyText(promises[i].call, body))

PageBodyError(i, error) ==
    /\ PageInFlight(i)
    /\ promises[i].call.pc = "text"
    /\ error \in BodyRejections(promises[i].call) \cap BodyErrorsOf(promises[i].url)
    /\ AfterPageCall(i, OnBodyError(promises[i].call, error))

NextSearch ==
    \/ \E status \in Statuses : SearchResponds(status)
    \/ \E error \in FetchRejections : SearchRejects(error)
    \/ SearchTimesOut
    \/ SearchBackoffElapsed
    \/ \E body \in SearchPages : SearchBodyText(body)
    \/ \E error \in {BodyError, TimeoutError} : SearchBodyError(error)
    \/ \E i \in 1..Len(promises), status \in Statuses : PageResponds(i, status)
    \/ \E i \in 1..Len(promises), error \in FetchRejections : PageRejects(i, error)
    \/ \E i \in 1..Len(promises) : PageTimesOut(i)
    \/ \E i \in 1..Len(promises) : PageBackoffElapsed(i)
    \/ \E i \in 1..Len(promises), body \in Bodies : PageBodyText(i, body)
    \/ \E i \in 1..Len(promises), error \in {BodyError, TimeoutError} : PageBodyError(i, error)

SpecSearch == InitSearch /\ [][NextSearch]_vars

(***************************************************************************)
(* SpecPhone: one normalizePhoneNumber call on a bounded set of inputs.    *)
(***************************************************************************)
RequestIdle ==
    /\ options = [retries |-> Undefined, timeout |-> Undefined]
    /\ req = NoCall
    /\ outcomes = <<>>
    /\ sleeps = <<>>

SearchIdle ==
    /\ query = ""
    /\ wpc = "idle"
    /\ searchCall = NoCall
    /\ searchResults = NoSearchResponse
    /\ promises = <<>>
    /\ response = NoResponse
    /\ overtaken = FALSE

DigitPool == <<"5", "5", "5", "1", "2", "3", "4", "5", "6", "7">>

\* the first n digits of 5551234567 5551234567 ...
DigitRun(n) == [i \in 1..n |-> DigitPool[((i - 1) % Len(DigitPool)) + 1]]

InsertAt(s, k, ch) ==
    IF Len(s) > k THEN SubSeq(s, 1, k) \o <<ch>> \o SubSeq(s, k + 1, Len(s)) ELSE s

\* 555-123-4567
Dashed(d) == InsertAt(InsertAt(d, 6, "-"), 3, "-")

\* (555) 123-4567
Parenthesised(d) == <<"(">> \o InsertAt(InsertAt(InsertAt(d, 6, "-"), 3, " "), 3, ")")

\* 555+1234567
PlusInside(d) == InsertAt(d, 3, "+")

PhonePrefixes ==
    {<<>>, <<"+">>, <<"1">>, <<"+", "1">>, <<"+", "1", " ">>, <<"1", "-">>,
     <<"+", "4", "4", " ">>, <<"t", "e", "l", ":">>}

PhoneBodies ==
    UNION {{DigitRun(n), Dashed(DigitRun(n)), Parenthesised(DigitRun(n)), PlusInside(DigitRun(n))} :
              n \in 0..MaxDigits}

PhoneInputs == {p \o b : p \in PhonePrefixes, b \in PhoneBodies}

InitPhone ==
    /\ phone \in PhoneInputs
    /\ phoneFormats = <<>>
    /\ ppc = "call"
    /\ RequestIdle
    /\ SearchIdle
    /\ MessagesIdle
    /\ FnIdle
    /\ ScheduleIdle

Normalize ==
    /\ ppc = "call"
    /\ phoneFormats' = normalizePhoneNumber(phone)
    /\ ppc' = "done"
    /\ UNCHANGED <<phone, reqVars, searchVars, msgVars, fnVars, schedVars>>

NextPhone == Normalize

SpecPhone == InitPhone /\ [][NextPhone]_vars

(***************************************************************************)
(* The message store of SpecMessages: rows of message joined with handle,  *)
(* and the filenames message_attachment_join gives for each row ("" for a  *)
(* filename that is NULL).                                                 *)
(***************************************************************************)
Alice == <<"+", "1", "5", "5", "5", "1", "2", "3", "4", "5", "6", "7">>

Bob == <<"+", "1", "5", "5", "5", "0", "0", "0", "0", "0", "0", "0">>

PlainRow ==
    [id |-> 1, date |-> 0, handle |-> Alice, text |-> Some("see https://a.example/x now"),
     attributedBody |-> Null, cache_has_attachments |-> 0, files |-> <<>>,
     is_from_me |-> Some(0), is_read |-> 0, is_audio_message |-> 0, item_type |-> 0,
     subject |-> Null]

LegacyBody ==
    Blob(<<"", "", "", "", "ok", "+ Dinner at eight iI K", "">>,
         <<"", "", "", "">>, "")

GarbledBody == Blob(<<"", "", "", "", "", "", "">>, <<"", "", "", "">>, "bplist")

StoreRows ==
    {PlainRow,
     \* attachments and no text: content is NULL
     [PlainRow EXCEPT !.id = 2, !.date = 250000000, !.text = Null,
                      !.cache_has_attachments = 1, !.files = <<"a.jpg", "", "b.png">>],
     \* an empty text and nothing else: content is NULL
     [PlainRow EXCEPT !.id = 3, !.date = 500000000, !.text = Some("")],
     \* sent by the user, read, body in the legacy encoding
     [PlainRow EXCEPT !.id = 4, !.date = 1000000000, !.text = Null,
                      !.attributedBody = Some(LegacyBody), !.is_from_me = Some(1),
                      !.is_read = 1],
     \* an audio message
     [PlainRow EXCEPT !.id = 5, !.date = 1250000000, !.text = Some("Audio Message"),
                      !.is_audio_message = 1],
     \* a group action
     [PlainRow EXCEPT !.id = 6, !.date = 1500000000, !.text = Some("renamed the chat"),
                      !.item_type = 1],
     \* within the same second as row 4
     [PlainRow EXCEPT !.id = 7, !.date = 1750000000, !.text = Some("hi")],
     \* from Bob, read, with a subject and one attachment
     [PlainRow EXCEPT !.id = 8, !.date = 2000000000, !.handle = Bob,
                      !.text = Some("photo for you"), !.subject = Some("Trip"),
                      !.cache_has_attachments = 1, !.files = <<"c.heic">>, !.is_read = 1],
     \* a body nothing can be read from, flagged for attachments it does not have
     [PlainRow EXCEPT !.id = 9, !.date = 1100000000, !.text = Null,
                      !.attributedBody = Some(GarbledBody), !.cache_has_attachments = 1],
     \* a subject and one attachment, no body
     [PlainRow EXCEPT !.id = 10, !.date = 1350000000, !.text = Null,
                      !.subject = Some("Minutes"), !.cache_has_attachments = 1,
                      !.files = <<"d.pdf">>]}

Stores == {s \in SUBSET StoreRows : Cardinality(s) <= MaxStoreRows}

\* the attachment filenames of a message id
FilesOf(rows, id) == (CHOOSE m \in rows : m.id = id).files

ReadPhones == {Dashed(DigitRun(10)), <<"1", "5", "5", "5", "0", "0", "0", "0", "0", "0", "0">>}

Calls ==
    [op : {"read"}, phoneNumber : ReadPhones, limit : 0..MaxLimit]
        \cup [op : {"unread"}, phoneNumber : {<<>>}, limit : 0..MaxLimit]

\* lines 222, 249-253 and 372-376: the rows the WHERE clause of the call selects
Matching(rows, c) ==
    IF c.op = "read"
    THEN {m \in rows : ReadWhere(m, normalizePhoneNumber(c.phoneNumber))}
    ELSE {m \in rows : UnreadWhere(m)}

ExecErrors == {"database is locked", "unable to open database file"}

(***************************************************************************)
(* SpecMessages: one readMessages or getUnreadMessages call.  Each action  *)
(* is one completion of a child process or of a timer, with everything the *)
(* code runs until its next await.                                         *)
(***************************************************************************)
InitMessages ==
    /\ store \in Stores
    /\ call \in Calls
    /\ dateParses \in BOOLEAN
    /\ mpc = "check"
    /\ access = retryOperation(MAX_RETRIES, RETRY_DELAY)
    /\ exec = NoRetry
    /\ raised = Undefined
    /\ tasks = <<>>
    /\ messages = <<>>
    /\ outOfOrder = FALSE
    /\ RequestIdle
    /\ SearchIdle
    /\ PhoneIdle
    /\ FnIdle
    /\ ScheduleIdle

\* lines 83-85, 91-104, 216-219: access(dbPath) settled.  A file that cannot be
\* read is caught and answered with false, and the call returns an empty
\* array; for a readable file the sqlite3 probe is started and awaited.
\* checkMessagesDBAccess never rejects, so the catch block of retryOperation
\* has no transition for this call.
AccessSettles(fileReadable) ==
    /\ mpc = "check"
    /\ access.pc = "run"
    /\ IF fileReadable
       THEN /\ mpc' = "probe"
            /\ access' = access
       ELSE /\ mpc' = "done"
            /\ access' = OnOperationResolved(access,
                                             checkMessagesDBAccess(FALSE, FALSE))
    /\ UNCHANGED <<store, call, dateParses, exec, raised, tasks, messages, outOfOrder, reqVars, searchVars, phoneVars, fnVars, schedVars>>

\* lines 88-104, 216-219: the probe 'SELECT 1;' settled, after access() had
\* accepted the file
ProbeSettles(probeSucceeds) ==
    /\ mpc = "probe"
    /\ access.pc = "run"
    /\ LET hasAccess == checkMessagesDBAccess(TRUE, probeSucceeds)
       IN  /\ access' = OnOperationResolved(access, hasAccess)
           /\ IF hasAccess
              THEN /\ mpc' = "query"
                   /\ exec' = retryOperation(MAX_RETRIES, RETRY_DELAY)
              ELSE /\ mpc' = "done"
                   /\ exec' = exec
    /\ UNCHANGED <<store, call, dateParses, raised, tasks, messages, outOfOrder, reqVars, searchVars, phoneVars, fnVars, schedVars>>

\* lines 259-261: sqlite3 failed; once retryOperation has thrown, the catch
\* block of lines 333-340 returns an empty array
ExecRejects(error) ==
    /\ mpc = "query"
    /\ exec.pc = "run"
    /\ exec' = OnOperationRejected(exec, error)
    /\ raised' = Some(error)
    /\ mpc' = IF exec'.pc = "thrown" THEN "done" ELSE mpc
    /\ UNCHANGED <<store, call, dateParses, access, tasks, messages, outOfOrder, reqVars, searchVars, phoneVars, fnVars, schedVars>>

\* line 22: the sleep between two executions is over
ExecSleepElapsed ==
    /\ mpc = "query"
    /\ exec.pc = "sleep"
    /\ exec' = OnSleepElapsed(exec)
    /\ UNCHANGED <<store, call, dateParses, mpc, access, raised, tasks, messages, outOfOrder, reqVars, searchVars, phoneVars, fnVars, schedVars>>

\* lines 259-332: sqlite3 printed the rows; an empty output returns at line
\* 265, otherwise the rows are filtered and every callback is started
ExecResolves ==
    /\ mpc = "query"
    /\ exec.pc = "run"
    /\ LET rows == QueryRows(Matching(store, call), call.limit)
           started == StartAll(rows, dateParses)
       IN  /\ exec' = OnOperationResolved(exec, Len(rows))
           /\ raised' = Undefined
           /\ tasks' = started
           /\ IF AnyRejected(started) \/ AllFulfilled(started)
              THEN mpc' = "done" /\ messages' = Awaited(started)
              ELSE mpc' = "rows" /\ messages' = messages
    /\ UNCHANGED <<store, call, dateParses, access, outOfOrder, reqVars, searchVars, phoneVars, fnVars, schedVars>>

\* lines 300, 303-332: the attachment lookup of row i ended, and the row's
\* callback runs to its end; Promise.all settles with the first rejection or
\* with the last fulfilment
LookupSettles(i, lookupSucceeds) ==
    /\ mpc = "rows"
    /\ tasks[i].status = "pending"
    /\ LET files == FilesOf(store, tasks[i].msg.message_id)
           settled == [tasks EXCEPT
                          ![i] = Settled(@.msg, getAttachmentPaths(files, lookupSucceeds),
                                         dateParses)]
       IN  /\ tasks' = settled
           /\ IF AnyRejected(settled) \/ AllFulfilled(settled)
              THEN mpc' = "done" /\ messages' = Awaited(settled)
              ELSE mpc' = mpc /\ messages' = messages
    /\ outOfOrder' = (outOfOrder \/ \E j \in 1..(i - 1) : tasks[j].status = "pending")
    /\ UNCHANGED <<store, call, dateParses, access, exec, raised, reqVars, searchVars, phoneVars, fnVars, schedVars>>

NextMessages ==
    \/ \E fileReadable \in BOOLEAN : AccessSettles(fileReadable)
    \/ \E probeSucceeds \in BOOLEAN : ProbeSettles(probeSucceeds)
    \/ \E error \in ExecErrors : ExecRejects(error)
    \/ ExecSleepElapsed
    \/ ExecResolves
    \/ \E i \in 1..Len(tasks), lookupSucceeds \in BOOLEAN : LookupSettles(i, lookupSucceeds)

SpecMessages == InitMessages /\ [][NextMessages]_vars

(***************************************************************************)
(* SpecExtract: the extractors applied to one document of a bounded set.   *)
(***************************************************************************)
\* a block whose uddg value decodeURIComponent rejects
MalformedBlock(i) == [GoodBlock(i) EXCEPT !.href = Some(MalformedEscape)]

\* a block whose uddg value is no URL and that has no display url
NonUrlBlock(i) ==
    [GoodBlock(i) EXCEPT !.href = Some(EncodedNonUrl), !.displayUrl = Undefined]

\* a block in which the title pattern has no match
UntitledBlock(i) == [GoodBlock(i) EXCEPT !.title = Undefined]

BadBlock(kind, i) ==
    IF kind = "malformed" THEN MalformedBlock(i)
    ELSE IF kind = "nonurl" THEN NonUrlBlock(i)
    ELSE UntitledBlock(i)

\* n blocks, well-formed but for the one at position p (none when p = 0)
BlocksWith(n, p, kind) == [i \in 1..n |-> IF i = p THEN BadBlock(kind, i) ELSE GoodBlock(i)]

\* a search page whose blocks are matched by the primary patterns, by the
\* fallback pattern, by both, or whose container holds no block the primary
\* block pattern matches
SerpPage(layout, blocks) ==
    IF layout = "primary" THEN Doc("search", <<>>, FALSE, TRUE, blocks, <<>>)
    ELSE IF layout = "fallback" THEN Doc("search", <<>>, FALSE, FALSE, <<>>, blocks)
    ELSE IF layout = "both" THEN Doc("search", <<>>, FALSE, TRUE, blocks, blocks)
    ELSE Doc("search", <<>>, FALSE, TRUE, <<>>, blocks)

SerpPages ==
    {SerpPage(layout, BlocksWith(n, p, kind)) :
        layout \in {"primary", "fallback", "both", "bare"},
        n \in 0..MaxSerpBlocks, p \in 0..MaxSerpBlocks,
        kind \in {"malformed", "nonurl", "untitled"}}

\* The pieces a content page is made of.  A piece is a text, an element
\* around a text, a region with a noise element in front of its text, a noise
\* element around a region, or a region inside another one; no element lies
\* inside one of its own kind.
RegionTags == {"main", "article", "div.content", "div#content", "body"}

Shapes ==
    [kind : {"text"}, outer : {""}, inner : {""}]
        \cup [kind : {"element"}, outer : RegionTags \cup NoiseTags, inner : {""}]
        \cup [kind : {"noiseInside"}, outer : {"main", "div#content"},
                                       inner : {"script", "nav"}]
        \cup [kind : {"regionInside"}, outer : {"header", "main", "article"},
                                        inner : {"main", "article", "div#content"}]

\* the piece of a shape, with the texts of position w
Piece(shape, w) ==
    IF shape.kind = "text" THEN Text("t" \o w)
    ELSE IF shape.kind = "element" THEN Element(shape.outer, <<Text("e" \o w)>>)
    ELSE IF shape.kind = "noiseInside"
    THEN Element(shape.outer, <<Element(shape.inner, <<Text("x" \o w)>>), Text("o" \o w)>>)
    ELSE Element(shape.outer, <<Text("o" \o w), Element(shape.inner, <<Text("i" \o w)>>)>>)

RECURSIVE PieceRun(_, _)
\* the runs of n pieces that can stand inside an element of the given tag
\* ("" for the top of the document)
PieceRun(tag, n) ==
    IF n = 0 THEN {<<>>}
    ELSE {Append(run, Piece(shape, ToString(n))) :
             run \in PieceRun(tag, n - 1),
             shape \in {sh \in Shapes : sh.outer # sh.inner /\ sh.outer # tag}}

\* the documents of at most MaxPieces pieces, with or without a title, bare
\* (tag "") or inside one element of the given tag
ContentPagesIn(tag) ==
    {Doc(title, IF tag = "" THEN pieces ELSE <<Element(tag, pieces)>>,
         FALSE, FALSE, <<>>, <<>>) :
        title \in {"", "Lima"}, pieces \in UNION {PieceRun(tag, n) : n \in 0..MaxPieces}}

InitExtract ==
    /\ arg \in SerpPages \cup ContentPagesIn("") \cup ContentPagesIn("body")
                \cup {PathologicalPage}
    /\ result = <<>>
    /\ fpc = "call"
    /\ RequestIdle
    /\ SearchIdle
    /\ PhoneIdle
    /\ MessagesIdle
    /\ ScheduleIdle

\* lines 163-185: the search step on the page makeRequest returned, with
\* what each strategy finds on the page
ExtractResults ==
    /\ fpc = "call"
    /\ result' = [fn |-> "searchDuckDuckGo",
                  primary |-> extractDDGResults(arg),
                  alternative |-> extractDDGResultsAlternative(arg),
                  response |-> SearchFromHtml("q", arg)]
    /\ fpc' = "done"
    /\ UNCHANGED <<arg, now, sched, reqVars, searchVars, phoneVars, msgVars>>

\* lines 306-307: the extraction step of fetchPageContent on the page
\* makeRequest returned
ExtractContent ==
    /\ fpc = "call"
    /\ result' = [fn |-> "extractMainContent", value |-> extractMainContent(arg)]
    /\ fpc' = "done"
    /\ UNCHANGED <<arg, now, sched, reqVars, searchVars, phoneVars, msgVars>>

NextExtract ==
    \/ ExtractResults
    \/ ExtractContent

SpecExtract == InitExtract /\ [][NextExtract]_vars

(***************************************************************************)
(* SpecSchedule: one scheduleMessage call (lines 466-501) and its timer.   *)
(* The clock counts ticks of 2^29 ms, so that the largest delay a timer    *)
(* takes, 2^31 - 1 ms, lies between 3 and 4 ticks.                         *)
(***************************************************************************)
ScheduleTickMs == 2 ^ 29

\* the largest delay of setTimeout (line 478); the runtime sets a larger one to 1 ms
TIMEOUT_MAX == 2147483647

\* the tick at which scheduleMessage is called
CallTick == 1

\* line 485: the delay, in ticks, the timer of setTimeout runs with
TimerDelay(delay) == IF delay > TIMEOUT_MAX \div ScheduleTickMs THEN 0 ELSE delay

\* lines 466-501: scheduleMessage called at tick t
scheduleMessage(scheduledTime, t) ==
    LET delay == scheduledTime - t
    IN  IF delay < 0
        THEN [pc |-> "thrown", error |-> "Cannot schedule message in the past",
              scheduledTime |-> scheduledTime, calledAt |-> t, due |-> 0,
              entries |-> {}, sends |-> 0, sentAt |-> 0]
        ELSE [pc |-> "scheduled", error |-> "",
              scheduledTime |-> scheduledTime, calledAt |-> t,
              due |-> t + TimerDelay(delay), entries |-> {"timeoutId"},
              sends |-> 0, sentAt |-> 0]

InitSchedule ==
    /\ now = CallTick
    /\ sched \in {[pc |-> "call", error |-> "", scheduledTime |-> t, calledAt |-> 0,
                   due |-> 0, entries |-> {}, sends |-> 0, sentAt |-> 0] :
                     t \in 0..(CallTick + MaxAheadTicks)}
    /\ RequestIdle
    /\ SearchIdle
    /\ PhoneIdle
    /\ MessagesIdle
    /\ FnIdle

\* lines 466-501
Schedule ==
    /\ sched.pc = "call"
    /\ sched' = scheduleMessage(sched.scheduledTime, now)
    /\ UNCHANGED <<now, reqVars, searchVars, phoneVars, msgVars, fnVars>>

ClockTick ==
    /\ now < CallTick + MaxAheadTicks + MaxLateTicks
    /\ now' = now + 1
    /\ UNCHANGED <<sched, reqVars, searchVars, phoneVars, msgVars, fnVars>>

\* lines 478-480: the timer fires, at its due time or later, and the
\* callback calls sendMessage
TimerFires ==
    /\ sched.pc = "scheduled"
    /\ now >= sched.due
    /\ sched' = [sched EXCEPT !.pc = "sending", !.sends = @ + 1, !.sentAt = now]
    /\ UNCHANGED <<now, reqVars, searchVars, phoneVars, msgVars, fnVars>>

\* lines 480-481: sendMessage resolved, the entry is deleted
SendResolves ==
    /\ sched.pc = "sending"
    /\ sched' = [sched EXCEPT !.pc = "sent", !.entries = @ \ {"timeoutId"}]
    /\ UNCHANGED <<now, reqVars, searchVars, phoneVars, msgVars, fnVars>>

\* lines 482-484: sendMessage rejected, the catch block only logs
SendRejects ==
    /\ sched.pc = "sending"
    /\ sched' = [sched EXCEPT !.pc = "failed"]
    /\ UNCHANGED <<now, reqVars, searchVars, phoneVars, msgVars, fnVars>>

NextSchedule ==
    \/ Schedule
    \/ ClockTick
    \/ TimerFires
    \/ SendResolves
    \/ SendRejects

SpecSchedule == InitSchedule /\ [][NextSchedule]_vars

(***************************************************************************)
(* SpecDecode: decodeAttributedBody (lines 108-187) applied to one body of *)
(* a bounded set.  In a body at most MaxCaptures of the 7 text patterns    *)
(* have a capture and at most one of the 4 URL patterns has.               *)
(***************************************************************************)
\* captures of 5 characters or fewer, and longer ones
CaptureTexts == {"ok", "yes", "Hello there", "+ Dinner at eight iI K"}

\* what the cleanup of lines 156-164 can leave of a body
ReadableTexts == {"", "bplist", "streamtyped note"}

RECURSIVE CapturesWith(_)
\* the captures of a body in which at most n patterns have one
CapturesWith(n) ==
    IF n = 0 THEN {<<"", "", "", "", "", "", "">>}
    ELSE CapturesWith(n - 1)
             \cup {[captures EXCEPT ![k] = t] :
                      captures \in CapturesWith(n - 1), k \in 1..7, t \in CaptureTexts}

CaptureLists == CapturesWith(MaxCaptures)

UrlLists ==
    {[k \in 1..4 |-> IF k = at THEN "https://a.example/x" ELSE ""] : at \in 0..4}

Blobs ==
    {Blob(captures, urls, readable) :
        captures \in CaptureLists, urls \in UrlLists, readable \in ReadableTexts}

InitDecode ==
    /\ arg \in Blobs
    /\ result = <<>>
    /\ fpc = "call"
    /\ RequestIdle
    /\ SearchIdle
    /\ PhoneIdle
    /\ MessagesIdle
    /\ ScheduleIdle

\* lines 285-288, 408-411: the call on the content of a row
Decode ==
    /\ fpc = "call"
    /\ result' = [fn |-> "decodeAttributedBody", value |-> decodeAttributedBody(arg)]
    /\ fpc' = "done"
    /\ UNCHANGED <<arg, now, sched, reqVars, searchVars, phoneVars, msgVars>>

NextDecode ==
    \/ Decode

SpecDecode == InitDecode /\ [][NextDecode]_vars

(***************************************************************************)
(* Properties of makeRequest, checked under SpecRequest.                   *)
(***************************************************************************)
\* the attempts so far that ended by the timeout signal or by an abort
EndedByTimeoutOrAbort(i) == outcomes[i] \in {TimeoutError, AbortError}

\* C1: an attempt that ended because its timeout fired or because it was
\* aborted is the last one: the call has thrown that error, no further attempt
\* was started and no backoff wait was entered.
C1_TimeoutNeverRetried ==
    \A i \in 1..Len(outcomes) :
        EndedByTimeoutOrAbort(i) =>
            /\ req.pc = "thrown"
            /\ req.thrown = outcomes[i]
            /\ req.nfetch = i
            /\ Len(sleeps) = i - 1

\* every attempt so far failed, and none by the timeout signal or an abort
AllFailedNoTimeout ==
    \A i \in 1..Len(outcomes) :
        outcomes[i] # NoError /\ ~EndedByTimeoutOrAbort(i)

\* C2: with retries = 2 or retries unspecified, a call whose attempts all fail
\* with a non-timeout error throws after exactly 3 attempts, and throws the
\* error of the third attempt.
C2_ThreeAttemptsLastError ==
    (/\ options.retries \in {Undefined, Some(2)}
     /\ req.pc = "thrown"
     /\ AllFailedNoTimeout)
        => /\ Len(outcomes) = 3
           /\ req.nfetch = 3
           /\ req.thrown = outcomes[3]

C2_Witness ==
    /\ options.retries = Undefined
    /\ req.pc = "thrown"
    /\ AllFailedNoTimeout
    /\ Len(outcomes) = 3
    /\ outcomes[1] = StatusError(404)
    /\ outcomes[2] = NetworkError
    /\ outcomes[3] = StatusError(503)
    /\ req.thrown = StatusError(503)

\* C3: a call given the retry budget r >= 0 explicitly makes at most r + 1
\* attempts.
C3_AtMostRetriesPlusOne ==
    options.retries # Undefined => req.nfetch <= options.retries[1] + 1

\* C4: the k-th backoff (after the failed attempt with index k - 1) asks for
\* 1000 * 2^(k-1) ms and the next attempt starts only after that long; every
\* attempt but the first is preceded by exactly one wait, and no wait follows
\* the attempt that ends the call.
C4_ExponentialBackoff ==
    /\ \A k \in 1..Len(sleeps) :
          /\ sleeps[k].delay = 1000 * 2^(k - 1)
          /\ sleeps[k].slept >= sleeps[k].delay
    /\ req.pc = "backoff" =>
          /\ req.delay = 1000 * 2^(req.attempt)
          /\ Len(sleeps) = req.attempt
          /\ req.attempt < req.retries
    /\ req.pc # "backoff" => Len(sleeps) = req.nfetch - 1

C4_Witness ==
    /\ req.pc = "thrown"
    /\ Len(sleeps) = 3
    /\ sleeps[1] = [delay |-> 1000, slept |-> 1000]
    /\ sleeps[2] = [delay |-> 2000, slept |-> 3000]
    /\ sleeps[3] = [delay |-> 4000, slept |-> 4000]
    /\ req.nfetch = 4

(***************************************************************************)
(* Properties of webSearch, checked under SpecSearch.                      *)
(***************************************************************************)
\* the number of results the search step found
Found == Len(searchResults.results)

\* the search step is over and it failed or found nothing
SearchCameBackEmpty ==
    /\ wpc # "search"
    /\ (searchResults.error # Undefined \/ Found = 0)

\* C5: when the search found N >= 1 results, webSearch returns min(5, N)
\* results and the i-th of them carries the url of the i-th search result,
\* in whatever order the content fetches settled.
C5_OrderPreserved ==
    (wpc = "done" /\ Found >= 1) =>
        /\ Len(response.results) = (IF Found < 5 THEN Found ELSE 5)
        /\ \A i \in 1..Len(response.results) :
              response.results[i].url = searchResults.results[i].url

C5_Witness ==
    /\ wpc = "done"
    /\ Found = 6
    /\ Len(response.results) = 5
    /\ overtaken
    /\ response.results[1].url # response.results[2].url

\* result i of the response carries content and no error
CarriesContent(i) ==
    /\ response.results[i].content # Null
    /\ response.results[i].error = Undefined

\* result i of the response carries no content and a non-empty error
CarriesError(i) ==
    /\ response.results[i].content = Null
    /\ response.results[i].error # Undefined
    /\ response.results[i].error[1] # ""

\* C6: in a run over 5 results in which the fetch of exactly one result j
\* failed and the four others succeeded, every other result carries content
\* and no error, and result j carries null content and a non-empty error.
C6_FailureIsolated ==
    (wpc = "done" /\ Len(promises) = 5) =>
        \A j \in 1..5 :
            (/\ promises[j].outcome = "fetch failed"
             /\ \A i \in (1..5) \ {j} : promises[i].outcome = "ok")
                => /\ CarriesError(j)
                   /\ \A i \in (1..5) \ {j} : CarriesContent(i)

C6_Witness ==
    /\ wpc = "done"
    /\ Len(promises) = 5
    /\ promises[3].outcome = "fetch failed"
    /\ \A i \in {1, 2, 4, 5} : promises[i].outcome = "ok" /\ CarriesContent(i)
    /\ CarriesError(3)
    /\ overtaken

\* C7: a returned result has null content exactly when its fetch or its
\* content extraction failed, and exactly then it has an error.
C7_NullIffFailed ==
    wpc = "done" =>
        \A i \in 1..Len(response.results) :
            /\ (response.results[i].content = Null) <=> (promises[i].outcome # "ok")
            /\ (response.results[i].content = Null) <=> (response.results[i].error # Undefined)

\* C8: when the search step failed or found nothing, webSearch is done with
\* no results and a non-empty error, and it started no content fetch; none is
\* started while the search is still running either.
C8_NoFetchWithoutResults ==
    /\ SearchCameBackEmpty =>
          /\ wpc = "done"
          /\ response.results = <<>>
          /\ response.error # Undefined
          /\ response.error[1] # ""
          /\ promises = <<>>
    /\ wpc = "search" => promises = <<>>

C8_Witness ==
    /\ wpc = "done"
    /\ Found = 0
    /\ searchResults.error = Some("No results found or couldn't parse results")
    /\ response.error = searchResults.error
    /\ promises = <<>>

\* C9: webSearch always comes to return a response: it carries the query it
\* was given; a top-level error is there only when the search failed or found
\* nothing, with no results; failed content fetches alone give none.
C9_AlwaysAResponse ==
    /\ (~ENABLED NextSearch) => wpc = "done"
    /\ wpc = "done" =>
          /\ response.query = query
          /\ DOMAIN response.results = 1..Len(response.results)
          /\ response.error # Undefined =>
                (SearchCameBackEmpty /\ response.results = <<>>)
          /\ ~SearchCameBackEmpty => response.error = Undefined

C9_Witness ==
    /\ wpc = "done"
    /\ response.error = Undefined
    /\ Len(response.results) = 2
    /\ \A i \in 1..2 : CarriesError(i)

\* C10: while a content fetch is pending webSearch has returned nothing;
\* there is one fetchPageContent promise per selected result, for its url,
\* all started together; a content call makes at most 2 requests and the
\* search call at most 3.
C10_AwaitsAllFetches ==
    /\ wpc = "search" => (searchCall.nfetch <= 3 /\ promises = <<>>)
    /\ wpc = "fetching" => response = NoResponse
    /\ wpc = "done" => \A i \in 1..Len(promises) : promises[i].status # "pending"
    /\ wpc # "search" =>
          /\ Len(promises) = (IF Found < 5 THEN Found ELSE 5)
          /\ (searchResults.error # Undefined => promises = <<>>)
          /\ \A i \in 1..Len(promises) :
                /\ promises[i].url = searchResults.results[i].url
                /\ promises[i].status = "pending" =>
                      (promises[i].call.nfetch >= 1 /\ promises[i].call.nfetch <= 2)

C10_Witness ==
    /\ wpc = "fetching"
    /\ Len(promises) = 5
    /\ promises[1].status = "pending"
    /\ promises[1].call.nfetch = 2
    /\ promises[2].status = "fulfilled"
    /\ promises[3].status = "pending"
    /\ promises[3].call.pc = "backoff"
    /\ response = NoResponse

(***************************************************************************)
(* Properties of normalizePhoneNumber, checked under SpecPhone.            *)
(***************************************************************************)
LastTen(s) == SubSeq(s, Len(s) - 9, Len(s))

\* C13: when the cleaned input is +1 and ten digits, 1 and ten digits, or ten
\* digits, normalizePhoneNumber returns exactly one candidate: +1 followed by
\* the last ten digits of the cleaned input.
C13_CanonicalForm ==
    (/\ ppc = "done"
     /\ \/ MatchPlusOneTen(Cleaned(phone))
        \/ MatchOneTen(Cleaned(phone))
        \/ MatchTen(Cleaned(phone)))
        => phoneFormats = << <<"+", "1">> \o LastTen(Cleaned(phone)) >>

\* 155-5123-4567 was normalised to +15551234567
C13_Witness ==
    /\ ppc = "done"
    /\ phone = <<"1", "-">> \o Dashed(DigitRun(10))
    /\ MatchOneTen(Cleaned(phone))
    /\ phoneFormats = << <<"+", "1", "5", "5", "5", "1", "2", "3", "4", "5", "6", "7">> >>

\* C14: every candidate returned has at most one '+', at index 0, followed
\* only by digits: a '+' that is not the first character was stripped.
C14_OnlyLeadingPlus ==
    ppc = "done" =>
        \A k \in 1..Len(phoneFormats) :
            \A i \in 1..Len(phoneFormats[k]) :
                \/ phoneFormats[k][i] \in Digits
                \/ i = 1 /\ phoneFormats[k][i] = "+"

\* C15: the array returned has at least one element and contains the cleaned
\* input itself as one of its elements.
C15_ContainsCleaned ==
    ppc = "done" =>
        /\ Len(phoneFormats) >= 1
        /\ \E k \in 1..Len(phoneFormats) : phoneFormats[k] = Cleaned(phone)

(***************************************************************************)
(* Properties of retryOperation, readMessages and getUnreadMessages,       *)
(* checked under SpecMessages.                                             *)
(***************************************************************************)
\* C11: a call that gave up because the store-access check failed had
\* performed the check again after the fixed delay: the check ran more than
\* once and at least one delay was slept before the empty array was returned.
C11_AccessCheckRetried ==
    (mpc = "done" /\ access.value = Some(FALSE)) =>
        /\ access.runs > 1
        /\ Len(access.waits) >= 1

\* C12 as stated: a query that failed on every execution under the default
\* budget was executed exactly 3 times, with 1000 ms slept between
\* consecutive executions.
C12_ThreeExecutions ==
    exec.pc = "thrown" =>
        /\ exec.runs = 3
        /\ exec.waits = <<1000, 1000>>

\* C12, amended: a query that failed on every execution under the default
\* budget was executed exactly 4 times (once, then MAX_RETRIES = 3 retries),
\* 1000 ms were slept before each retry, the error of the last execution
\* was rethrown, and the call returned an empty array.
C12_FourExecutionsFixedDelay ==
    exec.pc = "thrown" =>
        /\ exec.runs = 4
        /\ exec.waits = <<1000, 1000, 1000>>
        /\ exec.error = raised
        /\ mpc = "done"
        /\ messages = <<>>

\* the query failed on every execution and the last error was a different
\* one from the error retryOperation could have kept from an earlier failure
C12_Witness ==
    /\ exec.pc = "thrown"
    /\ exec.runs = MAX_RETRIES + 1
    /\ exec.error = Some("unable to open database file")
    /\ Cardinality(store) > 0

\* the row of the store a started callback works on
RowOf(i) == CHOOSE m \in store : m.id = tasks[i].msg.message_id

\* the call got rows from the query and no callback threw
ReturnedRows == mpc = "done" /\ exec.pc = "returned" /\ ~AnyRejected(tasks)

\* a row the query returned with content NULL, attachments flagged, no subject
AttachmentOnly(i) ==
    /\ tasks[i].msg.content = Null
    /\ tasks[i].msg.cache_has_attachments = 1
    /\ tasks[i].msg.subject = Null

SecondsOf(iso) == CHOOSE s \in AppleEpoch..(AppleEpoch + 9) : toISOString(s) = iso

\* C18: the array returned has at most limit elements and is in descending
\* timestamp order; its elements are, index by index, the results of the
\* callbacks started for the rows that survived the filter, these rows are
\* distinct rows the query selected, in descending order of m.date, whatever
\* the order the attachment lookups ended in.
C18_DescendingWithinLimit ==
    mpc = "done" =>
        /\ Len(messages) <= call.limit
        /\ \A i, j \in 1..Len(messages) :
               i < j => SecondsOf(messages[i].date) >= SecondsOf(messages[j].date)
        /\ messages # <<>> =>
               /\ Len(messages) = Len(tasks)
               /\ \A i \in 1..Len(tasks) :
                      /\ RowOf(i) \in Matching(store, call)
                      /\ messages[i].date = toISOString(tasks[i].msg.date)
                      /\ messages[i].sender = RowOf(i).handle
                      /\ \A j \in (i + 1)..Len(tasks) : RowOf(i).date > RowOf(j).date

\* two rows came back, the limit cut a third, and a later row's attachment
\* lookup ended before an earlier row's
C18_Witness ==
    /\ mpc = "done"
    /\ Len(messages) = 2
    /\ call.limit = 2
    /\ Cardinality(Matching(store, call)) = 3
    /\ outOfOrder
    /\ messages[1].date # messages[2].date

\* C19: a failure while one row is processed degrades that row only: once
\* the query has returned rows, every row that survived the filter is in the
\* array returned, so no single row empties the result.
C19_RowFailureIsLocal ==
    (mpc = "done" /\ exec.pc = "returned") => Len(messages) = Len(tasks)

\* C20: no message returned is an audio message or has an item type other
\* than 0, and every message returned by getUnreadMessages is a row not sent
\* by the user and not read, and says is_from_me false.
C20_OnlyRegularUnread ==
    (mpc = "done" /\ messages # <<>>) =>
        \A i \in 1..Len(messages) :
            /\ RowOf(i).is_audio_message = 0
            /\ RowOf(i).item_type = 0
            /\ call.op = "unread" =>
                   /\ RowOf(i).is_from_me = Some(0)
                   /\ RowOf(i).is_read = 0
                   /\ messages[i].is_from_me = FALSE

\* getUnreadMessages returned a message from a store that also holds a read
\* message of another sender and an audio message
C20_Witness ==
    /\ mpc = "done"
    /\ call.op = "unread"
    /\ Len(messages) = 1
    /\ \E m \in store : m.is_read = 1 /\ m.is_from_me = Some(0)
    /\ \E m \in store : m.is_audio_message = 1

(***************************************************************************)
(* Properties of the search result extractors, checked under SpecExtract.  *)
(***************************************************************************)
Searched == fpc = "done" /\ result.fn = "searchDuckDuckGo"

\* C21: when the primary strategy yields no result and the fallback yields at
\* least one, the search step returns the fallback's results with no error;
\* when the primary yields at least one result, the search step returns the
\* primary's results unchanged, with no error.
C21_FallbackWhenPrimaryEmpty ==
    Searched =>
        /\ (Len(result.primary) = 0 /\ Len(result.alternative) > 0) =>
               /\ result.response.results = result.alternative
               /\ result.response.results # <<>>
               /\ result.response.error = Undefined
        /\ Len(result.primary) > 0 =>
               /\ result.response.results = result.primary
               /\ result.response.error = Undefined

\* the container held no block, the fallback pattern matched three links
C21_Witness ==
    /\ Searched
    /\ arg.container
    /\ Len(result.primary) = 0
    /\ Len(result.alternative) = 3
    /\ Len(result.response.results) = 3

\* a block or link from which a result can be built without an exception
WellFormed(block, needsHost) ==
    /\ block.title # Undefined
    /\ block.href # Undefined
    /\ decodeURIComponent(block.href[1]).ok
    /\ (needsHost \/ block.displayUrl = Undefined) =>
           Hostname(decodeURIComponent(block.href[1]).value).ok

\* C22: a block that fails to parse is skipped alone: each strategy returns
\* one result for every well-formed block it processes, before and after a
\* failing one (the primary strategy processes the first 10 blocks).
C22_BlockFailureIsLocal ==
    Searched =>
        /\ arg.container =>
               Len(result.primary) =
                   Cardinality({i \in 1..Min(MaxBlocks, Len(arg.blocks)) :
                                   WellFormed(arg.blocks[i], FALSE)})
        /\ Len(result.alternative) =
               Cardinality({i \in 1..Len(arg.links) : WellFormed(arg.links[i], TRUE)})

\* C23: the search step never returns more than 10 results.
C23_AtMostTenResults ==
    Searched => Len(result.response.results) <= 10

(***************************************************************************)
(* Properties of scheduleMessage, checked under SpecSchedule.              *)
(***************************************************************************)
\* C24: a call with a scheduled time in the past throws without a timer and
\* without a send; a call with a scheduled time in the future returns a
\* handle, the message is sent at most once and never before the scheduled
\* time, and once the timer has fired and the send has been attempted the
\* entry of the handle is released.
C24_SentOnTimeAndReleased ==
    /\ sched.pc = "thrown" =>
           /\ sched.scheduledTime < sched.calledAt
           /\ sched.entries = {}
           /\ sched.sends = 0
    /\ (sched.pc # "call" /\ sched.scheduledTime >= sched.calledAt) => sched.pc # "thrown"
    /\ sched.sends <= 1
    /\ sched.sends > 0 => sched.sentAt >= sched.scheduledTime
    /\ sched.pc \in {"sent", "failed"} => sched.entries = {}

\* the content C25 describes for row i: the subject prefix, the body text or
\* the placeholder, the attachment marker, the URL marker
Assembled(i) ==
    LET msg == tasks[i].msg
        body == BodyOf(msg)
        prefix == IF msg.subject # Null
                  THEN "Subject: " \o msg.subject[1] \o "\n" ELSE ""
        text == IF body.text # "" THEN body.text ELSE "[No text content]"
        attached == IF messages[i].attachments # <<>>
                    THEN "\n[Attachments: "
                             \o ToString(Len(messages[i].attachments)) \o "]"
                    ELSE ""
        linked == IF messages[i].url # Undefined
                  THEN "\n[URL: " \o messages[i].url[1] \o "]" ELSE ""
    IN  prefix \o text \o attached \o linked

\* C25: the content of every returned row is the prefix 'Subject: <subject>\n'
\* iff the row has a subject, then the body text or '[No text content]', then
\* '\n[Attachments: n]' iff the attachments field is present, then
\* '\n[URL: <url>]' iff the url field is present; attachments is present iff
\* it is the non-empty list of the n filenames found, url iff a URL was found
\* in the text or decoded from the legacy body.
C25_ContentAssembly ==
    ReturnedRows =>
        \A i \in 1..Len(messages) :
            /\ messages[i].content = Assembled(i)
            /\ messages[i].url = BodyOf(tasks[i].msg).url
            /\ \/ messages[i].attachments = <<>>
               \/ messages[i].attachments =
                      SelectSeq(RowOf(i).files, LAMBDA f : f # "")

(***************************************************************************)
(* Properties of decodeAttributedBody, checked under SpecDecode.           *)
(***************************************************************************)
Decoded == fpc = "done" /\ result.fn = "decodeAttributedBody"

\* the patterns whose capture is longer than 5 characters
LongCaptures == {k \in 1..7 : Len(arg.captures[k]) > 5}

\* C26: decodeAttributedBody returns for every body; its text is the capture
\* (tidied) of the first pattern, in list order, whose capture is longer than
\* 5 characters, and a capture of 5 characters or fewer is never the text;
\* the result of the generic cleanup is the text only when no pattern has a
\* capture and no URL was found, and then only when it is longer than 5
\* characters, otherwise the text is '[Message content not readable]'.
C26_LongCaptureOrCleanup ==
    Decoded =>
        LET found == \E k \in 1..7 : arg.captures[k] # ""
            text == result.value.text
        IN  /\ LongCaptures # {} =>
                   text = Tidy(arg.captures[CHOOSE k \in LongCaptures :
                                                \A j \in LongCaptures : k <= j])
            /\ \A k \in 1..7 :
                   (arg.captures[k] # "" /\ Len(arg.captures[k]) <= 5) =>
                       text # arg.captures[k]
            /\ (found \/ FirstUrl(arg.urls) # Undefined) =>
                   (arg.readable # "" => text # arg.readable)
            /\ (~found /\ FirstUrl(arg.urls) = Undefined) =>
                   IF Len(arg.readable) > 5
                   THEN text = arg.readable
                   ELSE result.value = NotReadable

(***************************************************************************)
(* Properties of extractMainContent, checked under SpecExtract.            *)
(***************************************************************************)
Extracted == fpc = "done" /\ result.fn = "extractMainContent"

RECURSIVE TextsUnder(_, _, _)
\* the texts of a document, in document order, that lie in no noise element
\* and, unless inside holds, in an element of the given tag
TextsUnder(nodes, tag, inside) ==
    IF nodes = <<>> THEN <<>>
    ELSE LET node == Head(nodes)
         IN  (IF node.tag \in NoiseTags THEN <<>>
              ELSE IF node.tag = "#text"
              THEN (IF inside THEN <<node.text>> ELSE <<>>)
              ELSE TextsUnder(node.kids, tag, inside \/ node.tag = tag))
                 \o TextsUnder(Tail(nodes), tag, inside)

RECURSIVE Shows(_, _)
\* an element of the given tag lies in the document outside every noise element
Shows(nodes, tag) ==
    /\ nodes # <<>>
    /\ \/ /\ Head(nodes).tag \notin NoiseTags
          /\ Head(nodes).tag = tag \/ Shows(Head(nodes).kids, tag)
       \/ Shows(Tail(nodes), tag)

\* C27: extractMainContent returns a string for every document.  For a
\* document its regular expressions get through, the string is the text,
\* outside every noise element (script, style, header, footer, nav, aside,
\* form, comment), of the elements of one kind: the first of <main>,
\* <article>, content-class container, content-id container, <body> that
\* occurs outside the noise elements, all its occurrences in document order
\* and nothing of the later kinds; when none occurs, it is the text of the
\* whole document outside the noise elements.
C27_RegionPriority ==
    Extracted =>
        /\ result.value \in STRING
        /\ arg.regexFails => result.value = "Failed to extract content"
        /\ (arg # EmptyDocument /\ ~arg.regexFails) =>
               LET order == <<"main", "article", "div.content", "div#content", "body">>
                   shown == {k \in 1..5 : Shows(arg.content, order[k])}
                   first == CHOOSE k \in shown : \A j \in shown : k <= j
                   whole == (IF arg.title # "" THEN <<arg.title>> ELSE <<>>)
                                \o TextsUnder(arg.content, "", TRUE)
               IN  result.value =
                       JoinWords(IF shown # {}
                                 THEN TextsUnder(arg.content, order[first], FALSE)
                                 ELSE whole)

\* a document with an <article> in front of a <main> that has a <nav> inside:
\* the text is the <main>'s, without the <nav>'s and the <article>'s
C27_Witness ==
    /\ Extracted
    /\ Shows(arg.content, "main")
    /\ Shows(arg.content, "article")
    /\ Len(Matches(arg.content, "nav")) > 0
    /\ Len(arg.content) = 1
    /\ arg.content[1].tag = "body"
    /\ arg.content[1].kids[1].tag = "article"
    /\ result.value = "o2"

(***************************************************************************)
(* Further properties of webSearch and makeRequest.                        *)
(***************************************************************************)
\* C28: no promise of fetchPageContent is ever rejected: whatever the request
\* and the extraction came to, it is fulfilled with {url, content, error?}
\* for its own url; so every result of a finished webSearch carries the
\* content and error of its fulfilled promise, and none the error
\* 'Failed to fetch content: ...' of the branch for rejected promises.
C28_PageFetchNeverRejects ==
    /\ \A i \in 1..Len(promises) :
           /\ promises[i].status \in {"pending", "fulfilled"}
           /\ promises[i].status = "fulfilled" =>
                  /\ promises[i].value.url = promises[i].url
                  /\ promises[i].value.content # Null \/ promises[i].value.error # Undefined
    /\ (wpc = "done" /\ response.results # <<>>) =>
           \A i \in 1..Len(response.results) :
               /\ response.results[i].content = promises[i].value.content
               /\ response.results[i].error = promises[i].value.error
               /\ response.results[i].error #
                      Some("Failed to fetch content: " \o promises[i].reason)

\* a finished webSearch whose page fetches ended in a failed request, a
\* failed extraction and a page with content
C28_Witness ==
    /\ wpc = "done"
    /\ \E i, j, k \in 1..Len(promises) :
           /\ promises[i].outcome = "fetch failed"
           /\ promises[j].outcome = "extraction failed"
           /\ promises[k].outcome = "ok"
           /\ \A n \in {i, j, k} : promises[n].status = "fulfilled"
           /\ response.results[i].error # Undefined

\* the attempts that got a 2xx response
OkAttempts == {k \in 1..Len(outcomes) : outcomes[k] = NoError}

\* C29: once an attempt of makeRequest got a 2xx response it is the last
\* attempt of the call: the call reads the body and returns it, or the read
\* fails and the call throws that failure at once, with no backoff and no
\* further fetch, even when retries are left.
C29_NoRetryAfterOk ==
    OkAttempts # {} =>
        /\ OkAttempts = {Len(outcomes)}
        /\ req.pc \in {"text", "returned", "thrown"}
        /\ req.nfetch = Len(outcomes)
        /\ Len(sleeps) = Len(outcomes) - 1
        /\ req.pc = "thrown" => req.thrown \in BodyRejections(req)

\* the first attempt got a 2xx response, reading its body failed, and the
\* call threw that failure although retries were left
C29_Witness ==
    /\ OkAttempts = {1}
    /\ req.pc = "thrown"
    /\ req.thrown = BodyError
    /\ req.attempt < req.retries
    /\ sleeps = <<>>

(***************************************************************************)
(* A further property of normalizePhoneNumber, checked under SpecPhone.    *)
(***************************************************************************)
\* C30: normalizePhoneNumber returns exactly one string, that string starts
\* with '+1', and normalising it again returns it unchanged.
C30_OneCandidateFixedPoint ==
    ppc = "done" =>
        /\ Len(phoneFormats) = 1
        /\ StartsWith(phoneFormats[1], <<"+", "1">>)
        /\ normalizePhoneNumber(phoneFormats[1]) = <<phoneFormats[1]>>

\* +44 555-123-4 went through the fallback of lines 47-59 and came back as the
\* single string +1+445551234
C30_Witness ==
    /\ ppc = "done"
    /\ phone = <<"+", "4", "4", " ">> \o Dashed(DigitRun(7))
    /\ ~MatchPlusOneTen(Cleaned(phone))
    /\ ~MatchOneTen(Cleaned(phone))
    /\ ~MatchTen(Cleaned(phone))
    /\ phoneFormats = << <<"+", "1", "+", "4", "4", "5", "5", "5", "1", "2", "3", "4">> >>
====
